---- MODULE Spec2Model ----
(***************************************************************************)
(* Faunus particle/state core (src/src/core.h, src/src/molecule.h):        *)
(* ElasticRange, Group, Change, Space, the box geometries, Particle,       *)
(* Random, the catalogs, MoleculeData and RandomInserter, as state         *)
(* machines.                                                               *)
(*                                                                         *)
(* Spec and SpecMisuse drive one ElasticRange<int> laid over a vector, as  *)
(* the ElasticRange test case does; SpecSpace drives an accepted and a     *)
(* trial Space, Group assignment and Space::sync; SpecChange a Change      *)
(* object; SpecPush Space::push_back on a growing particle vector;         *)
(* SpecPBC boundary() and vdist() of a periodic box; SpecVolume setVolume  *)
(* and the loading of a box or cylinder; SpecMolecule the conformation    *)
(* weights; SpecSwap swap_to_back; SpecFind Group::find_id and             *)
(* Space::findAtoms; SpecSync Space::sync with a trial Space that may not  *)
(* fit; SpecTranslate Group::translate; SpecCatalog the loading of a       *)
(* catalog list; SpecParticle Particle::rotate; SpecRandom two Random      *)
(* objects and their state tokens; SpecInsert the retry loop of            *)
(* RandomInserter.                                                         *)
(*                                                                         *)
(* Iterators into a std::vector are modelled as 0-based offsets into the   *)
(* vector (0 .. size, size being the past-the-end iterator); the vector    *)
(* itself is a TLA+ sequence, so the element an iterator `it` points at    *)
(* is s[it + 1].                                                           *)
(***************************************************************************)
EXTENDS Integers, Sequences, FiniteSets

\* Length of the std::vector<int> an ElasticRange is laid over.
MaxLen == 6
\* Number of calls whose arguments and pre-state the call history records;
\* later calls still run, but are no longer recorded.
MaxCalls == 2
\* Largest number of group entries in a Change handed to Space::sync.
MaxEntries == 2

VARIABLES
    v,       \* the std::vector<int> under the ElasticRange
    r,       \* the ElasticRange: [begin, end, trueend] (first, second, _trueend)
    spc,     \* the accepted Space: [p, groups, cap]
    trial,   \* the trial Space: [p, groups, cap]
    ndebug,  \* TRUE: built with NDEBUG (assert() compiles to nothing)
    call,    \* history: the last call, its arguments, pre-state and outcome
    prev,    \* history: the call before `call`
    nops,    \* history: number of calls recorded so far
    chg,     \* a Change object: [dV, groups]
    geo,     \* a geometry object: Box, PBC<X,Y,Z> or Cylinder
    point,   \* the Point handed to the geometry (Point &a of boundary)
    mol,     \* a MoleculeData object: [conformations, confDist]
    atoms,   \* a catalog list: std::vector<AtomData> or std::vector<MoleculeData>
    particle,\* a Particle with orientable properties
    rng,     \* the Random objects of the program
    ins      \* a RandomInserter call in progress

vars == <<v, r, spc, trial, ndebug, call, prev, nops, chg, geo, point, mol,
          atoms, particle, rng, ins>>

----------------------------------------------------------------------------
(* std::vector<int> v = {10,20,30,...}: distinct values, so that a dropped, *)
(* duplicated or misplaced element is visible.                              *)
V0 == [i \in 1..MaxLen |-> 10 * i]

Iters == 0..MaxLen

At(s, it) == s[it + 1]

\* The elements of s in the iterator range [first, last), as a sequence.
Slice(s, first, last) == [k \in 1..(last - first) |-> s[first + k]]

\* The multiset of the elements of a sequence.
BagOf(s) ==
    LET vals == {s[i] : i \in DOMAIN s}
    IN  [x \in vals |-> Cardinality({i \in DOMAIN s : s[i] = x})]

----------------------------------------------------------------------------
(* IterRange / ElasticRange accessors *)

size(rg) == rg.end - rg.begin

capacity(rg) == rg.trueend - rg.begin

inactive(rg) == [begin |-> rg.end, end |-> rg.trueend]

\* ElasticRange(Titer begin, Titer end) : base({begin,end}), _trueend(end)
ElasticRange(begin, end) == [begin |-> begin, end |-> end, trueend |-> end]

\* A faulty rotate: shifts left without carrying the front elements to the back.
rotate_nowrap(s, first, middle, last) ==
    [i \in DOMAIN s |->
        IF first < i /\ i <= last
        THEN LET j == i + (middle - first) IN s[IF j <= last THEN j ELSE last]
        ELSE s[i]]

(* std::rotate(first, middle, last): the element at `middle` becomes the    *)
(* first element of [first, last) and the element at middle-1 the last one. *)
(* Defined only for first <= middle <= last.                                *)
rotate(s, first, middle, last) ==
    [i \in DOMAIN s |->
        IF first < i /\ i <= last
        THEN s[first + (((i - 1 - first) + (middle - first)) % (last - first)) + 1]
        ELSE s[i]]

\* std::rotate's precondition: [first, middle) and [middle, last) are valid
\* ranges of the vector s.
RotateDefined(s, first, middle, last) ==
    /\ 0 <= first /\ first <= middle /\ middle <= last /\ last <= Len(s)

\* A faulty deactivate: shrinks the window without moving the selection to its end.
deactivate_norotate(vec, rg, first, last) ==
    [v |-> vec, r |-> [rg EXCEPT !.end = @ - (last - first)]]

\* A faulty activate: grows the window without moving the selection to its end.
activate_norotate(vec, rg, first, last) ==
    [v |-> vec, r |-> [rg EXCEPT !.end = @ + (last - first)]]

(* ElasticRange::deactivate, the statements after the precondition assert:  *)
(*     n = distance(first,last); rotate(begin(), last, end()); end() -= n   *)
deactivate(vec, rg, first, last) ==
    LET n == last - first
    IN  [v |-> rotate(vec, rg.begin, last, rg.end),
         r |-> [rg EXCEPT !.end = @ - n]]

(* ElasticRange::activate:                                                  *)
(*     n = distance(first,last); rotate(end(), first, _trueend); end() += n *)
activate(vec, rg, first, last) ==
    LET n == last - first
    IN  [v |-> rotate(vec, rg.end, first, rg.trueend),
         r |-> [rg EXCEPT !.end = @ + n]]

\* assert(first>=begin() && last<=end()) in deactivate; activate has none.
DeactivateAssert(rg, first, last) == first >= rg.begin /\ last <= rg.end

----------------------------------------------------------------------------
(* Call history *)

NoCall == [op |-> "none", first |-> 0, last |-> 0, v |-> <<>>,
           r |-> ElasticRange(0, 0), outcome |-> "returned"]

Record(op, first, last, outcome) ==
    IF nops < MaxCalls
    THEN /\ call' = [op |-> op, first |-> first, last |-> last, v |-> v,
                     r |-> r, outcome |-> outcome]
         /\ prev' = call
         /\ nops' = nops + 1
    ELSE /\ call' = NoCall
         /\ prev' = NoCall
         /\ nops' = nops

\* The process is still running: the last call neither aborted nor ran
\* into undefined behaviour.
Running == call.outcome = "returned"

----------------------------------------------------------------------------
(* ElasticRange operations as steps of the program.                         *)
(*                                                                          *)
(* Outcomes: "returned" (the call ran to its end), "abort" (an assert       *)
(* failed: the process is terminated with nothing changed), "undefined"     *)
(* (std::rotate was called on an invalid range or the iterator left the     *)
(* vector: the C++ standard allows any result, so the vector and the range  *)
(* are no longer known and nothing may be concluded about them).            *)
(* The other asserts of the two functions cannot fail and are left out:     *)
(* n >= 0 holds of any size_t, and size() + inactive().size() == capacity() *)
(* is distance(begin,end) + distance(end,trueend) == distance(begin,trueend)*)
(* whatever end is.                                                         *)

DeactivateOutcome(first, last) ==
    IF ~ndebug /\ ~DeactivateAssert(r, first, last) THEN "abort"
    ELSE IF ~RotateDefined(v, r.begin, last, r.end) THEN "undefined"
    ELSE IF deactivate(v, r, first, last).r.end \notin 0..Len(v) THEN "undefined"
    ELSE "returned"

Deactivate(first, last) ==
    /\ Running
    /\ LET out == DeactivateOutcome(first, last)
           res == deactivate(v, r, first, last)
       IN  /\ v' = IF out = "returned" THEN res.v ELSE v
           /\ r' = IF out = "returned" THEN res.r ELSE r
           /\ Record("deactivate", first, last, out)
    /\ UNCHANGED <<ndebug, spc, trial, chg, geo, point, mol, atoms, particle, rng, ins>>

ActivateOutcome(first, last) ==
    IF ~RotateDefined(v, r.end, first, r.trueend) THEN "undefined"
    ELSE IF activate(v, r, first, last).r.end \notin 0..Len(v) THEN "undefined"
    ELSE "returned"

Activate(first, last) ==
    /\ Running
    /\ LET out == ActivateOutcome(first, last)
           res == activate(v, r, first, last)
       IN  /\ v' = IF out = "returned" THEN res.v ELSE v
           /\ r' = IF out = "returned" THEN res.r ELSE r
           /\ Record("activate", first, last, out)
    /\ UNCHANGED <<ndebug, spc, trial, chg, geo, point, mol, atoms, particle, rng, ins>>

\* Space(): no particles, no groups; cap is p.capacity().
EmptySpace == [p |-> <<>>, groups |-> <<>>, cap |-> 0]

\* Change(): dV = 0 and no groups.
NoChange == [dV |-> 0, groups |-> <<>>]

\* No geometry object has been constructed.
NoGeometry == [name |-> "none"]

\* MoleculeData(): no conformations; a default std::discrete_distribution<>
\* holds the single weight 1.
NoConformations == [conformations |-> <<>>, confDist |-> <<1>>]

\* No catalog entry loaded, no particle, no Random, no insertion under way.
IdleCatalog ==
    /\ atoms = <<>>
    /\ particle = [id |-> -1]
    /\ rng = <<>>
    /\ ins = [pc |-> "idle"]

\* The objects a specification does not drive stay as constructed.
Idle ==
    /\ chg = NoChange
    /\ geo = NoGeometry
    /\ point = <<0, 0, 0>>
    /\ mol = NoConformations
    /\ IdleCatalog

\* The documented preconditions of the two calls.
ValidDeactivate(first, last) ==
    r.begin <= first /\ first <= last /\ last <= r.end

ValidActivate(first, last) ==
    r.end <= first /\ first <= last /\ last <= r.trueend

(* A fresh range over any window [begin, end) of the vector. Valid calls   *)
(* pass every assert, so the debug build (asserts compiled in) is the one   *)
(* that is run.                                                             *)
Init ==
    /\ v = V0
    /\ r \in {ElasticRange(b, e) : b \in Iters, e \in Iters}
    /\ r.begin <= r.end
    /\ spc = EmptySpace
    /\ trial = EmptySpace
    /\ ndebug = FALSE
    /\ call = NoCall
    /\ prev = NoCall
    /\ nops = 0
    /\ Idle

\* The same, in either build.
InitMisuse ==
    /\ v = V0
    /\ r \in {ElasticRange(b, e) : b \in Iters, e \in Iters}
    /\ r.begin <= r.end
    /\ spc = EmptySpace
    /\ trial = EmptySpace
    /\ ndebug \in BOOLEAN
    /\ call = NoCall
    /\ prev = NoCall
    /\ nops = 0
    /\ Idle

\* Any sequence of valid calls.
Next ==
    \E first \in Iters, last \in Iters :
        \/ ValidDeactivate(first, last) /\ Deactivate(first, last)
        \/ ValidActivate(first, last) /\ Activate(first, last)

Spec == Init /\ [][Next]_vars

\* The last recorded call, if any, kept to the documented preconditions.
ContractKept ==
    /\ call.op = "deactivate" =>
           call.r.begin <= call.first /\ call.first <= call.last
                                      /\ call.last <= call.r.end
    /\ call.op = "activate" =>
           call.r.end <= call.first /\ call.first <= call.last
                                    /\ call.last <= call.r.trueend

(* Valid calls, and calls outside the documented windows. The run is        *)
(* followed up to its first call that breaks the contract, which is always  *)
(* a recorded one.                                                          *)
NextMisuse ==
    /\ ContractKept
    /\ \E first \in Iters, last \in Iters :
        \/ /\ ValidDeactivate(first, last) \/ nops < MaxCalls
           /\ Deactivate(first, last)
        \/ /\ ValidActivate(first, last) \/ nops < MaxCalls
           /\ Activate(first, last)

SpecMisuse == InitMisuse /\ [][NextMisuse]_vars

----------------------------------------------------------------------------
(* Particles, Group, Change and Space                                       *)

(* Sizes of the particle vectors handed to the Space::push_back calls that  *)
(* build a Space: one group per entry, of that capacity.                    *)
Caps == <<1, 2>>

\* A particle: its type id and its position (the Point as one coordinate).
Particle(id, pos) == [id |-> id, pos |-> pos]

\* Group(iter begin, iter end) : base(begin,end); id=-1, atomic=false, cm={0,0,0}
Group(begin, end) ==
    [begin |-> begin, end |-> end, trueend |-> end,
     id |-> -1, atomic |-> FALSE, cm |-> <<0, 0, 0>>]

\* p.reserve(n) on a Space without groups.
reserve(space, n) == [space EXCEPT !.cap = IF n > @ THEN n ELSE @]

\* p.size()+in.size() > p.capacity(): p.insert will move p to a new buffer.
Resized(space, in) == Len(space.p) + Len(in) > space.cap

(* The capacity of p after p.insert(p.end(), in.begin(), in.end()): as it   *)
(* was if the particles fit, else size + max(size, n) (GNU libstdc++).      *)
InsertCapacity(space, in) ==
    IF ~Resized(space, in) THEN space.cap
    ELSE Len(space.p) + (IF Len(space.p) > Len(in) THEN Len(space.p) ELSE Len(in))

(* After p moved to a new buffer the iterators the groups hold still point  *)
(* into the old one. Iterators are offsets from the begin() of the buffer   *)
(* that p has now, so an iterator that pointed at offset x of the old       *)
(* buffer reads x - delta, delta being the distance from the old buffer to  *)
(* the new one in particles (never 0: both buffers exist during insert).    *)
(* Arithmetic on such iterators is undefined in C++; what a build computes  *)
(* is the address arithmetic below, for whichever delta the allocator       *)
(* yields, so delta is left open.                                           *)
Dangling(gs, delta) ==
    [k \in DOMAIN gs |->
        [gs[k] EXCEPT !.begin = @ - delta, !.end = @ - delta, !.trueend = @ - delta]]

(* The loop of push_back that runs if `resized`, from group k on, gs being  *)
(* the group vector as updated so far. Each statement reads                 *)
(* groups[0].begin() as it is when the statement runs; p.begin() is         *)
(* offset 0; `capacity` is initialised from g.size() in the code.           *)
RECURSIVE Relocate(_, _)
Relocate(gs, k) ==
    IF k > Len(gs) THEN [groups |-> gs, outcome |-> "returned"]
    ELSE
      LET size0 == size(gs[k])
          capacity0 == size(gs[k])
          gs1 == [gs  EXCEPT ![k].begin   = 0 + (gs[k].begin    - gs[1].begin)]
          gs2 == [gs1 EXCEPT ![k].end     = 0 + (gs1[k].end     - gs1[1].begin)]
          gs3 == [gs2 EXCEPT ![k].trueend = 0 + (gs2[k].trueend - gs2[1].begin)]
      IN  IF size0 # size(gs3[k]) \/ capacity0 # capacity(gs3[k])
          THEN [groups |-> gs3, outcome |-> "Group relocation error"]
          ELSE Relocate(gs3, k + 1)

(* Space::push_back(molid, in); delta is where the allocator puts the new   *)
(* buffer if p is resized. The particles are inserted first; if `resized`   *)
(* the loop above runs and may throw; then a group spanning exactly the     *)
(* appended particles, with id = molid, is added at the back. Outcomes:     *)
(* "returned", "Group relocation error" (the std::runtime_error thrown).    *)
push_back(space, molid, in, delta) ==
    LET p2 == space.p \o in
        s2 == [space EXCEPT !.p = p2, !.cap = InsertCapacity(space, in)]
        rl == IF Resized(space, in)
              THEN Relocate(Dangling(space.groups, delta), 1)
              ELSE [groups |-> space.groups, outcome |-> "returned"]
        g  == [Group(Len(p2) - Len(in), Len(p2)) EXCEPT !.id = molid]
    IN  IF rl.outcome # "returned"
        THEN [spc |-> [s2 EXCEPT !.groups = rl.groups], outcome |-> rl.outcome]
        ELSE [spc |-> [s2 EXCEPT !.groups = Append(rl.groups, g)],
              outcome |-> "returned"]

\* The sum of the elements of a sequence of numbers.
RECURSIVE Sum(_)
Sum(q) == IF q = <<>> THEN 0 ELSE Head(q) + Sum(Tail(q))

(* The Space built by p.reserve() for all particles and Len(Caps)           *)
(* push_back calls, none of which resizes p: group k (molid k-1) gets       *)
(* Caps[k] particles, particle number i of the buffer having position       *)
(* i + shift.                                                               *)
RECURSIVE Build(_, _)
Build(k, shift) ==
    IF k = 0 THEN reserve(EmptySpace, Sum(Caps))
    ELSE LET s == Build(k - 1, shift)
             in == [i \in 1..Caps[k] |->
                        Particle((Len(s.p) + i - 1) % 2, Len(s.p) + i + shift)]
         IN  push_back(s, k - 1, in, 0).spc

\* The accepted Space, as built.
Accepted == Build(Len(Caps), 0)

(* The other Space (the trial state handed to sync): the same windows, and  *)
(* every particle position, mass center, atomic flag and group id different *)
(* from the accepted Space's, so that whatever is copied shows.             *)
Trial ==
    LET s == Build(Len(Caps), 100)
    IN  [s EXCEPT !.groups = [k \in DOMAIN s.groups |->
            [s.groups[k] EXCEPT !.id = @ + 10, !.atomic = TRUE,
                                !.cm = <<k, 0, 0>>]]]

\* IterRange::resize(n): end() += n
resize(rg, n) == [rg EXCEPT !.end = @ + n]

\* assert(size()==n) at the end of IterRange::resize
ResizeAssert(rg, n) == size(rg) = n

\* A faulty assignment: the capacity check is missing.
assign_unchecked(a, o, nd) ==
    [g |-> [resize(a, size(o)) EXCEPT !.id = o.id, !.atomic = o.atomic, !.cm = o.cm],
     outcome |-> "returned"]

(* Group::operator=(const Group &o) on group a; nd is the NDEBUG flag.      *)
(* Outcomes: "capacity mismatch" (the std::runtime_error thrown), "abort"   *)
(* (the assert in resize failed), "returned".                               *)
assign(a, o, nd) ==
    IF capacity(a) # capacity(o)
    THEN [g |-> a, outcome |-> "capacity mismatch"]
    ELSE LET a1 == resize(a, size(o))
         IN  IF ~nd /\ ~ResizeAssert(a1, size(o))
             THEN [g |-> a1, outcome |-> "abort"]
             ELSE [g |-> [a1 EXCEPT !.id = o.id, !.atomic = o.atomic, !.cm = o.cm],
                   outcome |-> "returned"]

(* Change::data entries: index is the 0-based group index (Len(Caps) is one *)
(* past the last group), all the allChanged flag, atoms the touched offsets *)
(* relative to Group::begin(), here within the group's capacity. The order  *)
(* and repetition of offsets in the std::vector<int> do not matter to sync  *)
(* (each is one assignment from the unchanged trial Space), so atoms is a   *)
(* set.                                                                     *)
EntryOffsets(i) ==
    IF i + 1 \in DOMAIN Caps THEN 0..(Caps[i + 1] - 1) ELSE {}

Entries ==
    UNION {{[index |-> i, all |-> a, atoms |-> t] :
                a \in BOOLEAN, t \in SUBSET EntryOffsets(i)} : i \in 0..Len(Caps)}

\* Change::groups: up to MaxEntries entries, in recorded order.
RECURSIVE SeqsUpTo(_, _)
SeqsUpTo(S, n) ==
    IF n = 0 THEN {<<>>}
    ELSE LET shorter == SeqsUpTo(S, n - 1)
         IN  shorter \cup {Append(q, e) : q \in shorter, e \in S}

Changes == SeqsUpTo(Entries, MaxEntries)

\* A faulty choice of offsets: every active offset, whatever the entry says.
Touched_all(m, gn) == 0..(size(gn) - 1)

(* The offsets Space::sync copies for entry m, gn being the trial group:    *)
(* std::copy(gn.begin(), gn.end(), go.begin()) if m.all, else m.atoms.      *)
Touched(m, gn) == IF m.all THEN 0..(size(gn) - 1) ELSE m.atoms

(* A faulty sync: an entry that fails is skipped and the later entries are  *)
(* applied.                                                                 *)
RECURSIVE sync_skip(_, _, _, _)
sync_skip(s, o, entries, applied) ==
    IF entries = <<>>
    THEN [spc |-> s, outcome |-> "returned", applied |-> applied]
    ELSE
      LET m == Head(entries)
          gi == m.index + 1
      IN
      IF gi \notin DOMAIN s.groups \/ gi \notin DOMAIN o.groups
      THEN sync_skip(s, o, Tail(entries), applied)
      ELSE
        LET go == s.groups[gi]
            gn == o.groups[gi]
            as == assign(go, gn, TRUE)
            offs == Touched(m, gn)
        IN
        IF as.outcome # "returned"
        THEN sync_skip(s, o, Tail(entries), applied)
        ELSE
          LET p2 == [k \in DOMAIN s.p |->
                        IF (k - 1 - go.begin) \in offs /\ gn.begin + (k - go.begin) \in DOMAIN o.p
                        THEN o.p[gn.begin + (k - 1 - go.begin) + 1]
                        ELSE s.p[k]]
          IN  sync_skip([s EXCEPT !.p = p2, !.groups[gi] = as.g],
                        o, Tail(entries), applied + 1)

(* Space::sync(o, change) built with NDEBUG, on Space s, entry by entry.    *)
(* Outcomes: "returned"; "out_of_range" (groups.at(m.index) threw);         *)
(* "capacity mismatch" (go = gn threw); "undefined" (a particle outside a   *)
(* buffer would be read or written). `applied` counts the entries that were *)
(* applied before the call ended.                                           *)
RECURSIVE sync(_, _, _, _)
sync(s, o, entries, applied) ==
    IF entries = <<>>
    THEN [spc |-> s, outcome |-> "returned", applied |-> applied]
    ELSE
      LET m == Head(entries)
          gi == m.index + 1
      IN
      IF gi \notin DOMAIN s.groups \/ gi \notin DOMAIN o.groups
      THEN [spc |-> s, outcome |-> "out_of_range", applied |-> applied]
      ELSE
        LET go == s.groups[gi]
            gn == o.groups[gi]
            as == assign(go, gn, TRUE)
            offs == Touched(m, gn)
        IN
        IF as.outcome # "returned"
        THEN [spc |-> s, outcome |-> as.outcome, applied |-> applied]
        ELSE IF \E i \in offs : \/ go.begin + i + 1 \notin DOMAIN s.p
                                \/ gn.begin + i + 1 \notin DOMAIN o.p
        THEN [spc |-> [s EXCEPT !.groups[gi] = as.g],
              outcome |-> "undefined", applied |-> applied]
        ELSE
          LET p2 == [k \in DOMAIN s.p |->
                        IF (k - 1 - go.begin) \in offs
                        THEN o.p[gn.begin + (k - 1 - go.begin) + 1]
                        ELSE s.p[k]]
          IN  sync([s EXCEPT !.p = p2, !.groups[gi] = as.g],
                   o, Tail(entries), applied + 1)

\* Both Spaces as built, in either build; no ElasticRange<int> of its own.
InitSpace ==
    /\ v = <<>>
    /\ r = ElasticRange(0, 0)
    /\ spc = Accepted
    /\ trial = Trial
    /\ ndebug \in BOOLEAN
    /\ call = NoCall
    /\ prev = NoCall
    /\ nops = 0
    /\ Idle

\* The Space named w.
SpaceOf(w) == IF w = "spc" THEN spc ELSE trial

SetSpace(w, s) ==
    /\ spc' = IF w = "spc" THEN s ELSE spc
    /\ trial' = IF w = "trial" THEN s ELSE trial

(* A valid deactivate / activate call on group g (1-based) of Space w: the  *)
(* Group is an ElasticRange over the Space's particle vector.               *)
GroupDeactivate(w, g, first, last) ==
    /\ call.op = "none"
    /\ LET s == SpaceOf(w)
           grp == s.groups[g]
           res == deactivate(s.p, grp, first, last)
       IN  /\ grp.begin <= first /\ first <= last /\ last <= grp.end
           /\ SetSpace(w, [s EXCEPT !.p = res.v, !.groups[g] = res.r])
    /\ UNCHANGED <<v, r, ndebug, call, prev, nops, chg, geo, point, mol, atoms, particle, rng, ins>>

GroupActivate(w, g, first, last) ==
    /\ call.op = "none"
    /\ LET s == SpaceOf(w)
           grp == s.groups[g]
           res == activate(s.p, grp, first, last)
       IN  /\ grp.end <= first /\ first <= last /\ last <= grp.trueend
           /\ SetSpace(w, [s EXCEPT !.p = res.v, !.groups[g] = res.r])
    /\ UNCHANGED <<v, r, ndebug, call, prev, nops, chg, geo, point, mol, atoms, particle, rng, ins>>

\* spc.groups[a] = trial.groups[b]  (Group::operator=), a and b 1-based.
Assign(a, b) ==
    /\ call.op = "none"
    /\ LET res == assign(spc.groups[a], trial.groups[b], ndebug)
       IN  /\ spc' = [spc EXCEPT !.groups[a] = res.g]
           /\ call' = [op |-> "assign", a |-> a, b |-> b, spc |-> spc,
                       outcome |-> res.outcome]
    /\ UNCHANGED <<v, r, trial, ndebug, prev, nops, chg, geo, point, mol, atoms, particle, rng, ins>>

(* spc.sync(trial, change). The asserts of sync compare a size_t with an    *)
(* iterator, so sync can only be instantiated when NDEBUG removes them:     *)
(* the call exists in builds with NDEBUG only.                              *)
Sync(change) ==
    /\ call.op = "none"
    /\ ndebug
    /\ LET res == sync(spc, trial, change, 0)
       IN  /\ spc' = res.spc
           /\ call' = [op |-> "sync", change |-> change, spc |-> spc,
                       outcome |-> res.outcome, applied |-> res.applied]
    /\ UNCHANGED <<v, r, trial, ndebug, prev, nops, chg, geo, point, mol, atoms, particle, rng, ins>>

GroupIds == DOMAIN Caps

SpaceIters == 0..Len(Accepted.p)

(* Valid deactivate/activate calls on the groups of either Space, then one  *)
(* Group assignment or one sync, whose pre-state the history keeps. The     *)
(* trial Space takes every valid span; the accepted Space, whose particles  *)
(* sync overwrites, takes the spans at the end of its active part (they     *)
(* change its active size, which is what assignment and sync read).         *)
NextSpace ==
    \/ \E w \in {"spc", "trial"}, g \in GroupIds, first \in SpaceIters, last \in SpaceIters :
           /\ w = "spc" => last = spc.groups[g].end
           /\ GroupDeactivate(w, g, first, last)
    \/ \E w \in {"spc", "trial"}, g \in GroupIds, first \in SpaceIters, last \in SpaceIters :
           /\ w = "spc" => first = spc.groups[g].end
           /\ GroupActivate(w, g, first, last)
    \/ \E a \in GroupIds, b \in GroupIds : Assign(a, b)
    \/ \E change \in Changes : Sync(change)

SpecSpace == InitSpace /\ [][NextSpace]_vars

----------------------------------------------------------------------------
(* Properties of ElasticRange *)

\* The elements of s that belong to the set S, in their order in s.
Keep(s, S) == SelectSeq(s, LAMBDA x : x \in S)

Elems(s) == {s[i] : i \in DOMAIN s}

\* The active window and the whole window of the range, as sequences.
Active(vec, rg) == Slice(vec, rg.begin, rg.end)

Window(vec, rg) == Slice(vec, rg.begin, rg.trueend)

\* The elements of the pre-state's active window that a deactivate call did
\* not select, in their order before the call.
Unselected(c) ==
    Slice(c.v, c.r.begin, c.first) \o Slice(c.v, c.last, c.r.end)

(* C1: after any sequence of valid deactivate/activate calls the active    *)
(* part and the inactive part add up to the capacity (end stays between    *)
(* begin and trueEnd), and the window [begin, trueEnd) holds the same      *)
(* multiset of elements as initially.                                      *)
C1_SizeAndMultiset ==
    /\ 0 <= size(r)
    /\ 0 <= size(inactive(r))
    /\ size(r) + size(inactive(r)) = capacity(r)
    /\ BagOf(Window(v, r)) = BagOf(Window(V0, r))

C1_Witness ==
    /\ nops = 2
    /\ prev.op = "deactivate"
    /\ call.op = "activate"
    /\ 0 < size(r) /\ size(r) < capacity(r)
    /\ Window(v, r) # Window(V0, r)

(* C2: a valid deactivate(first,last) shrinks end by n = last-first, keeps *)
(* begin and trueEnd, leaves in the active window exactly the elements     *)
(* that were not selected, and makes the n deactivated elements readable   *)
(* at [end, end+n) in their original order; on {10,..,60} with offsets     *)
(* [1,3) the active elements are 10,40,50,60 with 20 at end() and 30 at    *)
(* end()+1.                                                                *)
C2_DeactivatePost ==
    call.op = "deactivate" =>
        LET n == call.last - call.first
        IN  /\ call.outcome = "returned"
            /\ r.end = call.r.end - n
            /\ r.begin = call.r.begin
            /\ r.trueend = call.r.trueend
            /\ BagOf(Active(v, r)) = BagOf(Unselected(call))
            /\ \A k \in 0..(n - 1) : At(v, r.end + k) = At(call.v, call.first + k)
            /\ (/\ call.r = ElasticRange(0, 6)
                /\ Window(call.v, call.r) = <<10, 20, 30, 40, 50, 60>>
                /\ call.first = 1 /\ call.last = 3)
               => /\ Elems(Active(v, r)) = {10, 40, 50, 60}
                  /\ size(r) = 4
                  /\ At(v, r.end) = 20
                  /\ At(v, r.end + 1) = 30

C2_Witness ==
    /\ call.op = "deactivate"
    /\ call.r = ElasticRange(0, 6)
    /\ Window(call.v, call.r) = <<10, 20, 30, 40, 50, 60>>
    /\ call.first = 1 /\ call.last = 3
    /\ size(r) = 4
    /\ At(v, r.end) = 20

(* C3: a valid activate(first,last) grows end by n = last-first, keeps     *)
(* begin and trueEnd, leaves the previously active elements where they     *)
(* were, and places the n activated elements at [end-n, end) in their      *)
(* original order; activating two elements from end() after 20,30 were     *)
(* deactivated gives size 6 with 20 at end()-2 and 30 at end()-1.          *)
C3_ActivatePost ==
    call.op = "activate" =>
        LET n == call.last - call.first
        IN  /\ call.outcome = "returned"
            /\ r.end = call.r.end + n
            /\ r.begin = call.r.begin
            /\ r.trueend = call.r.trueend
            /\ \A i \in call.r.begin..(call.r.end - 1) : At(v, i) = At(call.v, i)
            /\ \A k \in 0..(n - 1) : At(v, r.end - n + k) = At(call.v, call.first + k)
            /\ (/\ prev.op = "deactivate"
                /\ prev.r = ElasticRange(0, 6)
                /\ Window(prev.v, prev.r) = <<10, 20, 30, 40, 50, 60>>
                /\ prev.first = 1 /\ prev.last = 3
                /\ call.first = call.r.end /\ call.last = call.r.end + 2)
               => /\ size(r) = 6
                  /\ At(v, r.end - 2) = 20
                  /\ At(v, r.end - 1) = 30

C3_Witness ==
    /\ call.op = "activate"
    /\ prev.op = "deactivate"
    /\ prev.r = ElasticRange(0, 6)
    /\ prev.first = 1 /\ prev.last = 3
    /\ call.first = call.r.end /\ call.last = call.r.end + 2
    /\ size(r) = 6
    /\ At(v, r.end - 1) = 30

\* An activate call that directly follows a deactivate call and takes back
\* the n elements that call deactivated: activate(end, end+n).
RoundTrip ==
    /\ prev.op = "deactivate"
    /\ call.op = "activate"
    /\ call.first = call.r.end
    /\ call.last = call.r.end + (prev.last - prev.first)

(* C4: deactivate(first,last) directly followed by activate(end, end+n)    *)
(* restores the active size and leaves the elements that were not selected *)
(* in the same relative order as before the deactivation; deactivating the *)
(* whole window and reactivating it recovers the original order.           *)
C4_RoundTripOrder ==
    RoundTrip =>
        /\ size(r) = size(prev.r)
        /\ Keep(Active(v, r), Elems(Unselected(prev))) = Unselected(prev)
        /\ (prev.first = prev.r.begin /\ prev.last = prev.r.end)
           => Active(v, r) = Active(prev.v, prev.r)

(* C5: deactivate(first,last) leaves every element at a position in        *)
(* [begin, first) where it was, and activate(first,last) moves no element  *)
(* of [begin, end).                                                        *)
C5_PrefixUntouched ==
    /\ call.op = "deactivate" =>
           \A i \in call.r.begin..(call.first - 1) : At(v, i) = At(call.v, i)
    /\ call.op = "activate" =>
           \A i \in call.r.begin..(call.r.end - 1) : At(v, i) = At(call.v, i)

\* A span that is not fully inside the window the call expects.
OutsideWindow(c) ==
    \/ c.op = "deactivate" /\ (c.first < c.r.begin \/ c.last > c.r.end)
    \/ c.op = "activate" /\ (c.first < c.r.end \/ c.last > c.r.trueend)

(* C6: a deactivate or activate call whose span is not fully inside its    *)
(* expected window is rejected and changes nothing: no element moves and   *)
(* end does not move.                                                      *)
C6_OutsideWindowRejected ==
    OutsideWindow(call) =>
        /\ call.outcome = "abort"
        /\ v = call.v
        /\ r = call.r

----------------------------------------------------------------------------
(* Properties of Group assignment and Space::sync *)

\* The groups of an assignment call c: a before the call, a after it, and b.
AssignedPre(c) == c.spc.groups[c.a]

AssignedPost(c) == spc.groups[c.a]

AssignedFrom(c) == trial.groups[c.b]

(* C7: a Group assignment a = b between groups of different capacity is    *)
(* reported as the error "capacity mismatch" and leaves a unchanged        *)
(* (begin, end, trueEnd, id, atomic flag, mass center); no particle is     *)
(* copied.                                                                 *)
C7_MismatchRejected ==
    (call.op = "assign" /\ capacity(AssignedPre(call)) # capacity(AssignedFrom(call)))
        => /\ call.outcome = "capacity mismatch"
           /\ AssignedPost(call) = AssignedPre(call)
           /\ spc = call.spc

C7_Witness ==
    /\ call.op = "assign"
    /\ call.outcome = "capacity mismatch"
    /\ capacity(AssignedPre(call)) = 1
    /\ capacity(AssignedFrom(call)) = 2
    /\ AssignedPost(call).id # AssignedFrom(call).id
    /\ size(AssignedPost(call)) # size(AssignedFrom(call))

(* C8: a Group assignment a = b between groups of equal capacity completes *)
(* with a.size() = b.size() whatever a's size was, a's capacity unchanged  *)
(* (begin <= end <= trueEnd), a's id, atomic flag and mass center equal to *)
(* b's, and no particle of the buffer modified.                            *)
C8_EqualCapacityAssign ==
    (call.op = "assign" /\ capacity(AssignedPre(call)) = capacity(AssignedFrom(call)))
        => /\ call.outcome = "returned"
           /\ size(AssignedPost(call)) = size(AssignedFrom(call))
           /\ capacity(AssignedPost(call)) = capacity(AssignedPre(call))
           /\ AssignedPost(call).begin <= AssignedPost(call).end
           /\ AssignedPost(call).end <= AssignedPost(call).trueend
           /\ AssignedPost(call).id = AssignedFrom(call).id
           /\ AssignedPost(call).atomic = AssignedFrom(call).atomic
           /\ AssignedPost(call).cm = AssignedFrom(call).cm
           /\ spc.p = call.spc.p

\* The 1-based positions in the accepted particle buffer that entry m lists:
\* group begin + offset, for each offset in touchedOffsets.
ListedPositions(c, m) ==
    {c.spc.groups[m.index + 1].begin + i + 1 : i \in m.atoms}

EntriesOf(c) == {c.change[k] : k \in DOMAIN c.change}

WithoutOffsets(change) ==
    [k \in DOMAIN change |->
        IF change[k].all THEN [change[k] EXCEPT !.atoms = {}] ELSE change[k]]

(* C10: an entry with allChanged = true makes every active particle of the *)
(* accepted group equal to the trial group's particle at the same offset,  *)
(* and its touchedOffsets are ignored: the result is the same whatever     *)
(* they contain.                                                           *)
C10_AllChangedCopiesActive ==
    (call.op = "sync" /\ call.outcome = "returned") =>
        /\ \A m \in EntriesOf(call) : m.all =>
              LET go == spc.groups[m.index + 1]
                  gn == trial.groups[m.index + 1]
              IN  \A i \in 0..(size(go) - 1) :
                     /\ go.begin + i + 1 \in DOMAIN spc.p
                     /\ gn.begin + i + 1 \in DOMAIN trial.p
                     /\ spc.p[go.begin + i + 1] = trial.p[gn.begin + i + 1]
        /\ spc = sync(call.spc, trial, WithoutOffsets(call.change), 0).spc

\* The 1-based group indices the entries of a sync call name.
SyncedGroups(c) == {m.index + 1 : m \in EntriesOf(c)}

(* C11: for every group entry of a Change, whether or not it lists         *)
(* offsets, sync makes the accepted group's active size equal to the trial *)
(* group's active size, whatever it was before, with the capacity          *)
(* unchanged (begin <= end <= trueEnd), and copies the trial group's mass  *)
(* center, id and atomic flag.                                             *)
C11_SyncCopiesPartition ==
    (call.op = "sync" /\ SyncedGroups(call) \subseteq DOMAIN call.spc.groups) =>
        /\ call.outcome = "returned"
        /\ \A g \in SyncedGroups(call) :
              /\ size(spc.groups[g]) = size(trial.groups[g])
              /\ capacity(spc.groups[g]) = capacity(call.spc.groups[g])
              /\ spc.groups[g].begin <= spc.groups[g].end
              /\ spc.groups[g].end <= spc.groups[g].trueend
              /\ spc.groups[g].cm = trial.groups[g].cm
              /\ spc.groups[g].id = trial.groups[g].id
              /\ spc.groups[g].atomic = trial.groups[g].atomic

(* C12: sync checks every listed offset against the accepted group's       *)
(* active size after the group assignment: a Change that lists an offset   *)
(* at or beyond that size is a fatal contract violation and no particle is *)
(* copied to that offset, while a Change whose offsets are all below it    *)
(* passes the check. Stated for a Change of one entry, whose group after   *)
(* the call is the group the check reads.                                  *)
C12_OffsetsChecked ==
    (/\ call.op = "sync"
     /\ Len(call.change) = 1
     /\ SyncedGroups(call) \subseteq DOMAIN call.spc.groups
     /\ ~call.change[1].all) =>
        LET m == call.change[1]
            go == spc.groups[m.index + 1]
            beyond == {i \in m.atoms : i >= size(go)}
        IN  IF beyond # {}
            THEN /\ call.outcome = "abort"
                 /\ \A i \in beyond :
                        spc.p[go.begin + i + 1] = call.spc.p[go.begin + i + 1]
            ELSE call.outcome = "returned"

----------------------------------------------------------------------------
(* Change: the record of what a trial move touched                          *)

\* Largest magnitude of the volume change dV a move records.
MaxDV == 1

\* No ElasticRange<int> and no Space are driven.
IdleRange ==
    /\ v = <<>>
    /\ r = ElasticRange(0, 0)
    /\ prev = NoCall
    /\ nops = 0

IdleSpace ==
    /\ spc = EmptySpace
    /\ trial = EmptySpace

\* std::fabs
fabs(x) == IF x < 0 THEN -x ELSE x

(* Change::empty():                                                         *)
(*     if (groups.empty()) if (std::fabs(dV)>0) return true;                *)
(*     return false;                                                        *)
empty(c) ==
    IF c.groups = <<>>
    THEN IF fabs(c.dV) > 0 THEN TRUE ELSE FALSE
    ELSE FALSE

\* Change::clear(), the statements before its assert: dV = 0; groups.clear()
clear(c) == [c EXCEPT !.dV = 0, !.groups = <<>>]

\* change.clear(): the cleared object, then assert(empty()).
Clear ==
    /\ Running
    /\ chg' = clear(chg)
    /\ call' = [op |-> "clear", chg |-> chg,
                outcome |-> IF ~ndebug /\ ~empty(clear(chg))
                            THEN "abort" ELSE "returned"]
    /\ UNCHANGED <<v, r, spc, trial, ndebug, prev, nops, geo, point, mol, atoms, particle, rng, ins>>

\* change.dV = dV: a move records a volume change.
SetDV(dV) ==
    /\ Running
    /\ chg' = [chg EXCEPT !.dV = dV]
    /\ call' = [op |-> "dV", chg |-> chg, outcome |-> "returned"]
    /\ UNCHANGED <<v, r, spc, trial, ndebug, prev, nops, geo, point, mol, atoms, particle, rng, ins>>

\* change.groups.push_back(d): a move records a touched group.
RecordGroup(d) ==
    /\ Running
    /\ Len(chg.groups) < MaxEntries
    /\ chg' = [chg EXCEPT !.groups = Append(@, d)]
    /\ call' = [op |-> "groups.push_back", chg |-> chg, outcome |-> "returned"]
    /\ UNCHANGED <<v, r, spc, trial, ndebug, prev, nops, geo, point, mol, atoms, particle, rng, ins>>

\* A freshly constructed Change, in either build.
InitChange ==
    /\ IdleRange
    /\ IdleSpace
    /\ chg = NoChange
    /\ geo = NoGeometry
    /\ point = <<0, 0, 0>>
    /\ mol = NoConformations
    /\ IdleCatalog
    /\ ndebug \in BOOLEAN
    /\ call = NoCall

NextChange ==
    \/ Clear
    \/ \E dV \in (-MaxDV)..MaxDV : SetDV(dV)
    \/ \E d \in Entries : RecordGroup(d)

SpecChange == InitChange /\ [][NextChange]_vars

(* C13: Change::empty() returns true exactly when no groups are recorded   *)
(* and the volume change is 0: true of a freshly constructed Change and    *)
(* right after clear(), whose assertion holds, and false as soon as a      *)
(* group is recorded or the volume change is not 0.                        *)
C13_EmptyIffNothingRecorded ==
    /\ empty(chg) <=> (chg.groups = <<>> /\ chg.dV = 0)
    /\ call.op = "clear" => (call.outcome = "returned" /\ empty(chg))

----------------------------------------------------------------------------
(* Space::push_back on a growing particle vector                            *)

\* Largest p.reserve() a Space starts with.
MaxReserve == 3
\* Largest number of particles handed to one push_back call.
MaxIn == 2
\* Largest number of particles and of groups a Space is grown to.
MaxParticles == 4
MaxGroups == 3
\* Largest molecule id handed to push_back.
MaxMolId == 1
\* Largest gap, in particles, the allocator leaves between two buffers.
MaxGap == 1

(* Where the allocator can put the new buffer of a resized p, as the        *)
(* distance from the old buffer: behind it or before it, the two not        *)
(* overlapping. 0 if p is not resized.                                      *)
Placements(space, in) ==
    IF ~Resized(space, in) THEN {0}
    ELSE {d \in {space.cap + k : k \in 0..MaxGap}
                   \cup {-(InsertCapacity(space, in) + k) : k \in 0..MaxGap} : d # 0}

\* The n particles of molecule molid appended to a buffer of `at` particles.
NewParticles(molid, n, at) == [i \in 1..n |-> Particle(molid, at + i)]

(* spc.push_back(molid, in). An exception thrown leaves main through its    *)
(* catch block (faunus.cpp), so nothing runs after it.                      *)
PushBack(molid, n, delta) ==
    /\ Running
    /\ Len(spc.p) + n <= MaxParticles
    /\ Len(spc.groups) < MaxGroups
    /\ LET in == NewParticles(molid, n, Len(spc.p))
           res == push_back(spc, molid, in, delta)
       IN  /\ delta \in Placements(spc, in)
           /\ spc' = res.spc
           /\ call' = [op |-> "push_back", molid |-> molid, in |-> in,
                       spc |-> spc, resized |-> Resized(spc, in),
                       outcome |-> res.outcome]
    /\ UNCHANGED <<v, r, trial, ndebug, prev, nops, chg, geo, point, mol, atoms, particle, rng, ins>>

\* spc.groups[g].deactivate(first, end()): the tail of group g is deactivated.
DeactivateTail(g, first) ==
    /\ Running
    /\ g \in DOMAIN spc.groups
    /\ spc.groups[g].begin <= first /\ first < spc.groups[g].end
    /\ LET res == deactivate(spc.p, spc.groups[g], first, spc.groups[g].end)
       IN  spc' = [spc EXCEPT !.p = res.v, !.groups[g] = res.r]
    /\ call' = [op |-> "group deactivate", g |-> g, outcome |-> "returned"]
    /\ UNCHANGED <<v, r, trial, ndebug, prev, nops, chg, geo, point, mol, atoms, particle, rng, ins>>

\* An empty Space whose particle vector has some capacity reserved, or none.
InitPush ==
    /\ IdleRange
    /\ Idle
    /\ spc \in {reserve(EmptySpace, c) : c \in 0..MaxReserve}
    /\ trial = EmptySpace
    /\ ndebug = FALSE
    /\ call = NoCall

NextPush ==
    \/ \E molid \in 0..MaxMolId, n \in 0..MaxIn,
          delta \in (-(2 * MaxParticles + MaxGap))..(MaxParticles + MaxGap) :
              PushBack(molid, n, delta)
    \/ \E g \in 1..MaxGroups, first \in 0..MaxParticles : DeactivateTail(g, first)

SpecPush == InitPush /\ [][NextPush]_vars

(* C14: when push_back appends particles and the particle buffer is        *)
(* reallocated, push_back completes without error and every group that    *)
(* existed before addresses the same buffer offsets as before: same begin  *)
(* offset, same active size and same capacity, the first group and groups  *)
(* with deactivated particles included.                                    *)
C14_RelocationKeepsGroups ==
    (call.op = "push_back" /\ call.resized) =>
        /\ call.outcome = "returned"
        /\ \A g \in DOMAIN call.spc.groups :
              /\ g \in DOMAIN spc.groups
              /\ spc.groups[g].begin = call.spc.groups[g].begin
              /\ size(spc.groups[g]) = size(call.spc.groups[g])
              /\ capacity(spc.groups[g]) = capacity(call.spc.groups[g])

\* The windows [begin, trueEnd) of the groups tile the particle buffer in
\* the order of the group indices.
Partition(s) ==
    /\ \A g \in DOMAIN s.groups :
          /\ s.groups[g].begin <= s.groups[g].end
          /\ s.groups[g].end <= s.groups[g].trueend
          /\ s.groups[g].begin = IF g = 1 THEN 0 ELSE s.groups[g - 1].trueend
    /\ Len(s.p) = IF s.groups = <<>> THEN 0 ELSE s.groups[Len(s.groups)].trueend

(* C15: after any sequence of push_back calls on an initially empty Space  *)
(* the groups partition the particle buffer (windows [begin, trueEnd)      *)
(* pairwise disjoint, contiguous, in the order of the group indices), and  *)
(* each push_back appends exactly one group that covers exactly the        *)
(* appended particles, with size = capacity = the number appended and      *)
(* id = molid, every earlier group keeping its index.                      *)
C15_GroupsPartitionBuffer ==
    /\ Partition(spc)
    /\ call.op = "push_back" =>
          LET n == Len(call.in)
              last == Len(spc.groups)
          IN  /\ call.outcome = "returned"
              /\ last = Len(call.spc.groups) + 1
              /\ size(spc.groups[last]) = n
              /\ capacity(spc.groups[last]) = n
              /\ spc.groups[last].id = call.molid
              /\ Window(spc.p, spc.groups[last]) = call.in
              /\ \A g \in DOMAIN call.spc.groups :
                    /\ spc.groups[g].id = call.spc.groups[g].id
                    /\ Window(spc.p, spc.groups[g])
                           = Window(call.spc.p, call.spc.groups[g])

----------------------------------------------------------------------------
(* Geometry: Box, PBC<X,Y,Z> (Cuboid, Cuboidslit) and Cylinder              *)
(*                                                                          *)
(* Coordinates and lengths are doubles in the code; here they are integers  *)
(* on a grid, on which the sums, differences and products the code forms    *)
(* are exact. len_half = l*0.5 and len_inv = 1/l are not stored: a          *)
(* comparison with len_half.x() is made with both sides doubled, and        *)
(* a.x()*len_inv.x() is the exact fraction a.x()/len.x(). Every quotient    *)
(* the model forms is far inside the range of int, so that the conversion   *)
(* in anint is defined.                                                     *)

\* Largest side length, radius and cylinder length of a geometry.
MaxSide == 3
\* Largest magnitude of a point coordinate.
MaxCoord == 3

\* The three axes of a Point: x(), y(), z().
Axes == 1..3

\* PBC<X,Y,Z> as constructed: the template flags; len is not yet set.
PBC(X, Y, Z) == [name |-> "PBC", pbc |-> <<X, Y, Z>>]

\* Cylinder as constructed: periodic along z only; radius and length not yet set.
Cylinder == [name |-> "Cylinder", pbc |-> <<FALSE, FALSE, TRUE>>]

\* Box::setLength(l)
setLength(g, l) == [k \in DOMAIN g \cup {"len"} |-> IF k = "len" THEN l ELSE g[k]]

\* Numbers of the form rat + pi * pc::pi, which the volumes of the geometries are.
Real(rat, pi) == [rat |-> rat, pi |-> pi]

\* x <= 0 and x > 0 for such a number whose two parts do not differ in sign.
LeqZero(x) == x.rat <= 0 /\ x.pi <= 0

GtZero(x) == x.rat >= 0 /\ x.pi >= 0 /\ (x.rat > 0 \/ x.pi > 0)

(* Cylinder::setRadius(radius, length): len = length; r = radius;           *)
(* r2 = r*r; diameter = 2*r; Box::setLength({diameter, diameter, len})      *)
setRadius(g, radius, length) ==
    LET c == [len |-> length, r |-> radius, r2 |-> radius * radius,
              diameter |-> 2 * radius]
    IN  [k \in DOMAIN setLength(g, <<>>) \cup {"cyl"} |->
            IF k = "cyl" THEN c
            ELSE IF k = "len" THEN <<c.diameter, c.diameter, c.len>>
            ELSE g[k]]

(* getVolume(dim): Box::getVolume is len.x()*len.y()*len.z() (dim is 3);    *)
(* Cylinder::getVolume is len for dim 1, pi*r2 for dim 2, r2*pi*len else.   *)
getVolume(g, dim) ==
    IF g.name = "Cylinder"
    THEN IF dim = 1 THEN Real(g.cyl.len, 0)
         ELSE IF dim = 2 THEN Real(0, g.cyl.r2)
         ELSE Real(0, g.cyl.r2 * g.cyl.len)
    ELSE Real(g.len[1] * g.len[2] * g.len[3], 0)

\* std::cbrt of a perfect cube.
cbrt(V) == CHOOSE l \in (-(fabs(V)))..fabs(V) : l * l * l = V

(* setVolume(V). Box: l = cbrt(V); setLength({l,l,l}). Cylinder:            *)
(* r = sqrt(V/(pi*len)); setRadius(r2, len), where setRadius overwrites r   *)
(* before anything has read the square root. Neither throws.                *)
setVolume(g, V) ==
    IF g.name = "Cylinder"
    THEN [geo |-> setRadius(g, g.cyl.r2, g.cyl.len), outcome |-> "returned"]
    ELSE [geo |-> setLength(g, <<cbrt(V), cbrt(V), cbrt(V)>>), outcome |-> "returned"]

(* from_json(j, Box &b) for a json object j: j.length is <<l>> if           *)
(* j["length"] is the number l, and the three lengths if it is an array.    *)
(* Outcomes: "returned", "volume is zero or less" (the std::runtime_error   *)
(* thrown, after b has been given the lengths).                             *)
from_json(j, b) ==
    LET b2 == IF Len(j.length) = 1
              THEN setLength(b, <<j.length[1], j.length[1], j.length[1]>>)
              ELSE setLength(b, j.length)
    IN  [geo |-> b2,
         outcome |-> IF LeqZero(getVolume(b2, 3)) THEN "volume is zero or less"
                     ELSE "returned"]

\* A faulty anint: the fraction is cut off instead of rounded.
anint_cut(num, den) ==
    IF num > 0 THEN num \div den ELSE -((-num) \div den)

(* PBC::anint(x) for x = num/den, den > 0:                                  *)
(*     int(x > 0.0 ? x + 0.5 : x - 0.5), int() cutting off the fraction     *)
anint(num, den) ==
    IF num > 0 THEN (2 * num + den) \div (2 * den)
    ELSE -((den - 2 * num) \div (2 * den))

\* A faulty wrap: one box length is subtracted or added, as vdist does.
boundary_axis_once(x, L, on) ==
    IF on /\ 2 * x > L THEN x - L
    ELSE IF on /\ 2 * x < -L THEN x + L
    ELSE x

(* PBC::boundary on one axis, `on` being the axis' template flag:           *)
(*     if (std::fabs(a.x()) > len_half.x())                                 *)
(*         a.x() -= len.x() * anint(a.x() * len_inv.x());                   *)
boundary_axis(x, L, on) ==
    IF on /\ 2 * fabs(x) > L THEN x - L * anint(x, L) ELSE x

\* PBC::boundary(Point &a): the point a becomes.
boundary(g, a) == [i \in Axes |-> boundary_axis(a[i], g.len[i], g.pbc[i])]

\* A faulty correction: the image is only ever moved down.
vdist_axis_down(d, L, on) ==
    IF on /\ 2 * d > L THEN d - L ELSE d

(* PBC::vdist on one axis, d being the component of a - b:                  *)
(*     if (r.x() > len_half.x()) r.x() -= len.x();                          *)
(*     else if (r.x() < -len_half.x()) r.x() += len.x();                    *)
vdist_axis(d, L, on) ==
    IF on /\ 2 * d > L THEN d - L
    ELSE IF on /\ 2 * d < -L THEN d + L
    ELSE d

\* PBC::vdist(a, b)
vdist(g, a, b) == [i \in Axes |-> vdist_axis(a[i] - b[i], g.len[i], g.pbc[i])]

\* Side lengths in which every axis takes every length of 1..MaxSide.
Sides == {[i \in Axes |-> ((l + i - 2) % MaxSide) + 1] : l \in 1..MaxSide}

\* Cuboid, Cuboidslit and the base of Cylinder.
Flags == {<<TRUE, TRUE, TRUE>>, <<TRUE, TRUE, FALSE>>, <<FALSE, FALSE, TRUE>>}

Points == {<<x, y, z>> : x \in (-MaxCoord)..MaxCoord, y \in (-MaxCoord)..MaxCoord,
                         z \in (-MaxCoord)..MaxCoord}

\* The second point handed to vdist: on the diagonal, so that with any first
\* point every difference occurs on every axis.
Diagonal == {<<c, c, c>> : c \in (-MaxCoord)..MaxCoord}

(* The PBC/Cuboid test case, in units of 0.001:                             *)
(*     Cuboid geo = {"length": [2,3,4]};  Point a(1.1, 1.5, -2.001)         *)
(* from_json sets the lengths and accepts the volume 2*3*4 > 0.             *)
TestCuboid == setLength(PBC(TRUE, TRUE, TRUE), <<2000, 3000, 4000>>)

TestPoint == <<1100, 1500, -2001>>

\* geo.boundary(point)
Boundary ==
    /\ Running
    /\ point' = boundary(geo, point)
    /\ call' = [op |-> "boundary", a |-> point, outcome |-> "returned"]
    /\ UNCHANGED <<v, r, spc, trial, ndebug, prev, nops, chg, geo, mol, atoms, particle, rng, ins>>

\* geo.vdist(point, b)
Vdist(b) ==
    /\ Running
    /\ call' = [op |-> "vdist", a |-> point, b |-> b,
                result |-> vdist(geo, point, b), outcome |-> "returned"]
    /\ UNCHANGED <<v, r, spc, trial, ndebug, prev, nops, chg, geo, point, mol, atoms, particle, rng, ins>>

\* A periodic box loaded with positive side lengths, and a point.
InitPBC ==
    /\ IdleRange
    /\ IdleSpace
    /\ chg = NoChange
    /\ mol = NoConformations
    /\ IdleCatalog
    /\ ndebug = FALSE
    /\ call = NoCall
    /\ \/ /\ geo \in {from_json([length |-> l],
                                PBC(f[1], f[2], f[3])).geo : l \in Sides, f \in Flags}
          /\ point \in Points
       \/ /\ geo = TestCuboid
          /\ point = TestPoint

NextPBC ==
    \/ Boundary
    \/ \E b \in Diagonal : Vdist(b)

SpecPBC == InitPBC /\ [][NextPBC]_vars

Difference(c) == [i \in Axes |-> c.a[i] - c.b[i]]

RoundHalfAway(num, den) ==
    LET q == (2 * fabs(num) + den) \div (2 * den)
    IN  IF num < 0 THEN -q ELSE q

----------------------------------------------------------------------------
(* Setting and loading the volume of a geometry                             *)

\* The volumes handed to setVolume: perfect cubes, of which std::cbrt is exact.
Cubes == {k * k * k : k \in (-MaxSide)..MaxSide}

(* from_json(j, Cylinder &cyl): cyl.setRadius( j.at("length"),              *)
(* j.at("radius") ), the parameters of setRadius being (radius, length).    *)
from_json_Cylinder(j, cyl) == setRadius(cyl, j.length, j.radius)

\* The json objects handed to from_json(Cylinder).
CylinderRecords == {[length |-> L, radius |-> R] : L \in 1..MaxSide, R \in 1..MaxSide}

\* The json objects handed to from_json(Box): "length" a number or an array.
Records ==
    {[length |-> <<l>>] : l \in (-1)..MaxSide}
        \cup {[length |-> <<x, y, z>>] :
                  x \in (-1)..MaxSide, y \in (-1)..MaxSide, z \in (-1)..MaxSide}

(* geo.setVolume(V). A cylinder's radius grows with every call; the calls  *)
(* are followed while it is within MaxSide.                                 *)
SetVolume(V) ==
    /\ Running
    /\ geo.name = "Cylinder" => geo.cyl.r <= MaxSide
    /\ geo' = setVolume(geo, V).geo
    /\ call' = [op |-> "setVolume", V |-> V, geo |-> geo,
                outcome |-> setVolume(geo, V).outcome]
    /\ UNCHANGED <<v, r, spc, trial, ndebug, prev, nops, chg, point, mol, atoms, particle, rng, ins>>

(* Cuboid geo = j: a Cuboid is constructed and from_json(j, geo) fills it.  *)
(* An exception thrown leaves main through its catch block.                 *)
Load(j) ==
    /\ Running
    /\ geo' = from_json(j, PBC(TRUE, TRUE, TRUE)).geo
    /\ call' = [op |-> "from_json", j |-> j, geo |-> geo,
                outcome |-> from_json(j, PBC(TRUE, TRUE, TRUE)).outcome]
    /\ UNCHANGED <<v, r, spc, trial, ndebug, prev, nops, chg, point, mol, atoms, particle, rng, ins>>

\* Cylinder geo = j: a Cylinder is constructed and from_json(j, geo) fills it.
LoadCylinder(j) ==
    /\ Running
    /\ geo' = from_json_Cylinder(j, Cylinder)
    /\ call' = [op |-> "from_json(Cylinder)", j |-> j, geo |-> geo,
                outcome |-> "returned"]
    /\ UNCHANGED <<v, r, spc, trial, ndebug, prev, nops, chg, point, mol, atoms, particle, rng, ins>>

\* A box loaded with positive side lengths, or a cylinder given a positive
\* radius and length.
InitVolume ==
    /\ IdleRange
    /\ IdleSpace
    /\ chg = NoChange
    /\ mol = NoConformations
    /\ IdleCatalog
    /\ point = <<0, 0, 0>>
    /\ ndebug = FALSE
    /\ call = NoCall
    /\ geo \in {from_json([length |-> l],
                          PBC(TRUE, TRUE, TRUE)).geo : l \in Sides}
               \cup {setRadius(Cylinder, R, L) : R \in 1..MaxSide, L \in 1..MaxSide}

NextVolume ==
    \/ \E V \in Cubes : SetVolume(V)
    \/ \E j \in Records : Load(j)
    \/ \E j \in CylinderRecords : LoadCylinder(j)

SpecVolume == InitVolume /\ [][NextVolume]_vars

\* The volume the side lengths of a box record give.
RecordVolume(j) ==
    IF Len(j.length) = 1 THEN j.length[1] * j.length[1] * j.length[1]
    ELSE j.length[1] * j.length[2] * j.length[3]

(* C19: setting a geometry's volume to a non-positive value fails with a   *)
(* configuration error: setVolume(V) with V <= 0 on a box or a cylinder,   *)
(* and loading a box record whose side lengths give a volume <= 0, are     *)
(* rejected, so that after a successful setVolume or load getVolume() is   *)
(* never <= 0.                                                             *)
C19_NonPositiveVolumeRejected ==
    /\ (call.op = "setVolume" /\ call.V <= 0) => call.outcome # "returned"
    /\ (call.op = "from_json" /\ RecordVolume(call.j) <= 0)
           => call.outcome = "volume is zero or less"
    /\ (call.op \in {"setVolume", "from_json"} /\ call.outcome = "returned")
           => GtZero(getVolume(geo, 3))

----------------------------------------------------------------------------
(* MoleculeData: stored conformations and their weights (molecule.h)        *)

\* Largest number of conformations stored for a molecule.
MaxConformations == 4
\* Largest weight handed to addConformation / pushConformation.
MaxWeight == 3

RECURSIVE GCD(_, _)
GCD(x, y) == IF y = 0 THEN x ELSE GCD(y, x % y)

RECURSIVE GCDOf(_)
GCDOf(q) == IF q = <<>> THEN 0 ELSE GCD(Head(q), GCDOf(Tail(q)))

(* std::discrete_distribution<>(w.begin(), w.end()): index i is drawn with  *)
(* probability w[i] / Sum(w). The distribution is kept as the weights in    *)
(* lowest terms, so that two distributions are equal iff their              *)
(* probabilities are.                                                       *)
discrete_distribution(w) == [i \in DOMAIN w |-> w[i] \div GCDOf(w)]

(* The vector the code rebuilds the distribution from:                      *)
(*     auto w = confDist.probabilities(); w.push_back(weight);              *)
(* probabilities() are d[i] / Sum(d); all entries are given here times      *)
(* Sum(d), which leaves the distribution built from them the same.          *)
RebuiltWeights(d, weight) == Append(d, weight * Sum(d))

(* MoleculeData::addConformation(vec, weight): the weights are rebuilt only *)
(* if a conformation is already stored; then the conformation is stored.    *)
addConformation(m, vec, weight) ==
    [conformations |-> Append(m.conformations, vec),
     confDist |-> IF m.conformations # <<>>
                  THEN discrete_distribution(RebuiltWeights(m.confDist, weight))
                  ELSE m.confDist]

\* MoleculeData::pushConformation(vec, weight): the same statements.
pushConformation(m, vec, weight) ==
    [conformations |-> Append(m.conformations, vec),
     confDist |-> IF m.conformations # <<>>
                  THEN discrete_distribution(RebuiltWeights(m.confDist, weight))
                  ELSE m.confDist]

\* The weights handed to the calls so far, in call order.
WeightsSoFar == IF call.op = "none" THEN <<>> ELSE call.weights

\* assert(confDist.probabilities().size() == conformations.size())
ConformationAssert(m) == Len(m.confDist) = Len(m.conformations)

\* mol.addConformation(vec, weight); vec is the particle vector number
\* Len(conformations) + 1.
AddConformation(weight) ==
    /\ Running
    /\ Len(mol.conformations) < MaxConformations
    /\ mol' = addConformation(mol, Len(mol.conformations) + 1, weight)
    /\ call' = [op |-> "addConformation", weights |-> Append(WeightsSoFar, weight),
                outcome |-> IF ~ndebug /\ ~ConformationAssert(mol')
                            THEN "abort" ELSE "returned"]
    /\ UNCHANGED <<v, r, spc, trial, ndebug, prev, nops, chg, geo, point, atoms, particle, rng, ins>>

PushConformation(weight) ==
    /\ Running
    /\ Len(mol.conformations) < MaxConformations
    /\ mol' = pushConformation(mol, Len(mol.conformations) + 1, weight)
    /\ call' = [op |-> "pushConformation", weights |-> Append(WeightsSoFar, weight),
                outcome |-> IF ~ndebug /\ ~ConformationAssert(mol')
                            THEN "abort" ELSE "returned"]
    /\ UNCHANGED <<v, r, spc, trial, ndebug, prev, nops, chg, geo, point, atoms, particle, rng, ins>>

\* A molecule type without conformations.
InitMolecule ==
    /\ IdleRange
    /\ IdleSpace
    /\ Idle
    /\ ndebug = FALSE
    /\ call = NoCall

NextMolecule ==
    \/ \E weight \in 1..MaxWeight : AddConformation(weight)
    \/ \E weight \in 1..MaxWeight : PushConformation(weight)

SpecMolecule == InitMolecule /\ [][NextMolecule]_vars

(* C20: after addConformation/pushConformation calls with the weights       *)
(* w_1..w_k the selection distribution has exactly k entries and selects    *)
(* conformation i with probability w_i / (w_1 + ... + w_k); with every      *)
(* weight left at the default 1, every stored conformation is equally       *)
(* likely, for every k.                                                     *)
C20_SelectionFollowsWeights ==
    call.op \in {"addConformation", "pushConformation"} =>
        /\ call.outcome = "returned"
        /\ Len(mol.confDist) = Len(call.weights)
        /\ Len(mol.conformations) = Len(call.weights)
        /\ \A i \in DOMAIN call.weights :
              mol.confDist[i] * Sum(call.weights) = call.weights[i] * Sum(mol.confDist)
        /\ (\A i \in DOMAIN call.weights : call.weights[i] = 1)
              => \A i \in DOMAIN mol.confDist : mol.confDist[i] = mol.confDist[1]

----------------------------------------------------------------------------
(* swap_to_back (core.h 1192-1196)                                          *)

\* A faulty loop: `first` is not advanced.
RECURSIVE swap_to_back_first(_, _, _, _)
swap_to_back_first(s, first, last, end) ==
    IF end > last
    THEN swap_to_back_first([s EXCEPT ![first + 1] = s[end], ![end] = s[first + 1]],
                            first, last, end - 1)
    ELSE s

(* swap_to_back(first, last, end) on the vector s:                          *)
(*     while (end-- > last) std::iter_swap(first++, end);                   *)
(* The comparison reads end before the decrement, the swap reads it after.  *)
(* The last `end--` leaves the local copy at last - 1, which is never       *)
(* dereferenced.                                                            *)
RECURSIVE swap_to_back(_, _, _, _)
swap_to_back(s, first, last, end) ==
    IF end > last
    THEN swap_to_back([s EXCEPT ![first + 1] = s[end], ![end] = s[first + 1]],
                      first + 1, last, end - 1)
    ELSE s

\* swap_to_back( v.begin()+first, v.begin()+last, v.begin()+end )
SwapToBack(first, last, end) ==
    /\ call.op = "none"
    /\ first <= last /\ last <= end /\ end <= Len(v)
    /\ v' = swap_to_back(v, first, last, end)
    /\ call' = [op |-> "swap_to_back", first |-> first, last |-> last,
                end |-> end, v |-> v, outcome |-> "returned"]
    /\ UNCHANGED <<r, spc, trial, ndebug, prev, nops, chg, geo, point, mol, atoms, particle, rng, ins>>

\* A vector of any length up to MaxLen, as in the test case ({1,2,3,4}).
InitSwap ==
    /\ v \in {SubSeq(V0, 1, n) : n \in 0..MaxLen}
    /\ r = ElasticRange(0, 0)
    /\ prev = NoCall
    /\ nops = 0
    /\ IdleSpace
    /\ Idle
    /\ ndebug = FALSE
    /\ call = NoCall

NextSwap ==
    \E first \in Iters, last \in Iters, end \in Iters : SwapToBack(first, last, end)

SpecSwap == InitSwap /\ [][NextSwap]_vars

(* C26: swap_to_back(first, last, end) with first <= last <= end only       *)
(* permutes [first, end), leaves every element outside it untouched, and    *)
(* afterwards the elements that were in [first, last) occupy the last       *)
(* (last - first) positions of [first, end), whatever the lengths of the    *)
(* range and of the tail; the range at offsets [1,3) of four elements       *)
(* a,b,c,d gives a,d,c,b, and a range already at the back is left as is.    *)
C26_SwapToBack ==
    call.op = "swap_to_back" =>
        /\ Len(v) = Len(call.v)
        /\ \A i \in DOMAIN v :
              (i <= call.first \/ i > call.end) => v[i] = call.v[i]
        /\ BagOf(Slice(v, call.first, call.end))
              = BagOf(Slice(call.v, call.first, call.end))
        /\ Elems(Slice(v, call.end - (call.last - call.first), call.end))
              = Elems(Slice(call.v, call.first, call.last))
        /\ (Len(v) = 4 /\ call.first = 1 /\ call.last = 3 /\ call.end = 4)
              => v = <<10, 40, 30, 20>>
        /\ call.last = call.end => v = call.v

\* A call whose tail is longer than the range, which it moved.
C26_Witness ==
    /\ call.op = "swap_to_back"
    /\ call.first < call.last
    /\ call.end - call.last > call.last - call.first
    /\ v # call.v
    /\ v[call.end] = call.v[call.first + 1]

----------------------------------------------------------------------------
(* Group::find_id and Space::findAtoms (core.h 1345-1347, 1537-1539)        *)

\* A faulty filter: over the whole window [begin, trueend) of the group.
find_id_window(vec, grp, id) ==
    SelectSeq(Slice(vec, grp.begin, grp.trueend), LAMBDA i : i.id = id)

(* Group::find_id(id): *this | filter(i.id==id); *this is the range         *)
(* [begin(), end()) over the particle vector vec. The view is given as the  *)
(* sequence of the particles it yields.                                     *)
find_id(vec, grp, id) ==
    SelectSeq(Slice(vec, grp.begin, grp.end), LAMBDA i : i.id = id)

\* Space::findAtoms(atomid): p | filter(i.id==atomid)
findAtoms(space, atomid) == SelectSeq(space.p, LAMBDA i : i.id = atomid)

\* The atom type ids asked for: those of the particles, and one that none has.
AtomIds == 0..2

\* spc.groups[g].find_id(id), g 1-based; the history keeps what it yielded.
FindId(g, id) ==
    /\ call.op = "none"
    /\ call' = [op |-> "find_id", g |-> g, id |-> id,
                found |-> find_id(spc.p, spc.groups[g], id), outcome |-> "returned"]
    /\ UNCHANGED <<v, r, spc, trial, ndebug, prev, nops, chg, geo, point, mol, atoms, particle, rng, ins>>

\* spc.findAtoms(atomid)
FindAtoms(atomid) ==
    /\ call.op = "none"
    /\ call' = [op |-> "findAtoms", id |-> atomid,
                found |-> findAtoms(spc, atomid), outcome |-> "returned"]
    /\ UNCHANGED <<v, r, spc, trial, ndebug, prev, nops, chg, geo, point, mol, atoms, particle, rng, ins>>

(* A Space of two groups: the particles of the Group test case (type ids    *)
(* 0,1,1) and two more (type ids 1,0), particle number i at position i; p   *)
(* was reserved for all of them.                                            *)
InitFind ==
    /\ IdleRange
    /\ Idle
    /\ spc = LET in1 == <<Particle(0, 1), Particle(1, 2), Particle(1, 3)>>
                 in2 == <<Particle(1, 4), Particle(0, 5)>>
                 s1 == push_back(reserve(EmptySpace, 5), 0, in1, 0).spc
             IN  push_back(s1, 1, in2, 0).spc
    /\ trial = EmptySpace
    /\ ndebug = FALSE
    /\ call = NoCall

(* Valid deactivate/activate calls on the groups of the Space, then one of  *)
(* the two queries.                                                         *)
NextFind ==
    \/ \E g \in DOMAIN spc.groups, first \in 0..Len(spc.p), last \in 0..Len(spc.p) :
           GroupDeactivate("spc", g, first, last)
    \/ \E g \in DOMAIN spc.groups, first \in 0..Len(spc.p), last \in 0..Len(spc.p) :
           GroupActivate("spc", g, first, last)
    \/ \E g \in DOMAIN spc.groups, id \in AtomIds : FindId(g, id)
    \/ \E id \in AtomIds : FindAtoms(id)

SpecFind == InitFind /\ [][NextFind]_vars

(* Every particle of a Space is active when its group is pushed, so the     *)
(* particles in [end, trueend) of a group are those that were deactivated   *)
(* and not activated again. Particles differ in their positions.            *)
Deactivated(space, g) ==
    Elems(Slice(space.p, space.groups[g].end, space.groups[g].trueend))

(* C30: Group::find_id(id) yields exactly the active particles of the group *)
(* whose type id matches, never a deactivated one; Space::findAtoms(id)     *)
(* yields the matching particles of the whole buffer, those deactivated in  *)
(* their group included.                                                    *)
C30_FindIdActiveOnly ==
    /\ call.op = "find_id" =>
          /\ Elems(call.found)
                = {x \in Elems(Window(spc.p, spc.groups[call.g])) : x.id = call.id}
                     \ Deactivated(spc, call.g)
          /\ Len(call.found) = Cardinality(Elems(call.found))
    /\ call.op = "findAtoms" =>
          /\ Elems(call.found) = {x \in Elems(spc.p) : x.id = call.id}
          /\ \A g \in DOMAIN spc.groups :
                {x \in Deactivated(spc, g) : x.id = call.id} \subseteq Elems(call.found)

(* find_id on a group with a deactivated particle of the type asked for,    *)
(* which it does not yield while it yields another.                         *)
C30_Witness ==
    /\ call.op = "find_id"
    /\ call.found # <<>>
    /\ \E x \in Deactivated(spc, call.g) : x.id = call.id

\* findAtoms yielding a particle that is deactivated in its group.
C30_WitnessAtoms ==
    /\ call.op = "findAtoms"
    /\ \E g \in DOMAIN spc.groups :
          \E x \in Deactivated(spc, g) : x \in Elems(call.found)

----------------------------------------------------------------------------
(* Space::sync and the ranges of a Change entry (core.h 1453-1458,          *)
(* 1541-1560). Of a Change::data sync reads index, all and atoms; the       *)
(* members activated and deactivated appear nowhere in it, so an entry that *)
(* records only such a range is one with all = false and no atoms.          *)

\* The entries of a sync call record nothing but (de)activated ranges.
RangesOnly(c) == \A m \in EntriesOf(c) : ~m.all /\ m.atoms = {}

(* C27: sync copies particles only through allChanged and touchedOffsets:   *)
(* if the trial group deactivated or activated a span and the Change        *)
(* records only that range, the accepted group's active size follows the    *)
(* trial's, but no particle of the accepted Space is updated. The trial     *)
(* group has (de)activated a span where its active size differs from the    *)
(* accepted group's.                                                        *)
C27_RangesNotCopied ==
    (/\ call.op = "sync"
     /\ call.change # <<>>
     /\ SyncedGroups(call) \subseteq DOMAIN call.spc.groups
     /\ RangesOnly(call)
     /\ \A g \in SyncedGroups(call) :
            size(trial.groups[g]) # size(call.spc.groups[g])) =>
        /\ call.outcome = "returned"
        /\ spc.p = call.spc.p
        /\ \A g \in SyncedGroups(call) :
              size(spc.groups[g]) = size(trial.groups[g])

(* The part of C27 that is about the particles: the accepted group's window *)
(* is not updated and differs from the trial's permuted window.             *)
C27_WindowsDiffer ==
    /\ call.op = "sync"
    /\ call.outcome = "returned"
    /\ call.change # <<>>
    /\ RangesOnly(call)
    /\ SyncedGroups(call) \subseteq DOMAIN call.spc.groups
    /\ spc.p = call.spc.p
    /\ \E g \in SyncedGroups(call) :
          /\ size(trial.groups[g]) < capacity(trial.groups[g])
          /\ \E i \in 1..capacity(trial.groups[g]) :
                (spc.p[spc.groups[g].begin + i].pos + 100)
                    # trial.p[trial.groups[g].begin + i].pos

----------------------------------------------------------------------------
(* Space::sync on Spaces whose groups differ in capacity                    *)

(* A trial Space built by push_back calls of 1 and 1 particles: its groups  *)
(* are [0,1) and [1,2), the accepted Space's [0,1) and [1,3), so the second *)
(* groups differ in capacity.                                               *)
TrialOther ==
    [Trial EXCEPT !.p = SubSeq(@, 1, 2),
                  !.groups[2].end = 2, !.groups[2].trueend = 2]

\* Both Spaces as built, the trial Space in either way.
InitSync ==
    /\ IdleRange
    /\ Idle
    /\ spc = Accepted
    /\ trial \in {Trial, TrialOther}
    /\ ndebug = TRUE
    /\ call = NoCall

NextSync == \E change \in Changes : Sync(change)

SpecSync == InitSync /\ [][NextSync]_vars

(* Entry m of a sync call fails: groups.at(m.index) throws in either Space, *)
(* or the two groups differ in capacity (sync changes no capacity).         *)
Fails(c, m) ==
    \/ m.index + 1 \notin DOMAIN c.spc.groups
    \/ m.index + 1 \notin DOMAIN trial.groups
    \/ capacity(c.spc.groups[m.index + 1]) # capacity(trial.groups[m.index + 1])

\* The position of the first failing entry of a sync call, 0 if none fails.
FirstFailing(c) ==
    IF \E k \in DOMAIN c.change : Fails(c, c.change[k])
    THEN CHOOSE k \in DOMAIN c.change :
            /\ Fails(c, c.change[k])
            /\ \A j \in 1..(k - 1) : ~Fails(c, c.change[j])
    ELSE 0

(* C28: sync applies the entries in recorded order and is not atomic: if    *)
(* the entry at position k fails, every entry before k has been applied to  *)
(* the accepted Space (the group's id, atomic flag and mass center and the  *)
(* particles the entry selects are the trial's), the failing group and its  *)
(* particles are as before the call, and so is every group that only        *)
(* entries after k name.                                                    *)
C28_SyncNotAtomic ==
    (call.op = "sync" /\ FirstFailing(call) > 0) =>
        LET k == FirstFailing(call)
            before == {call.change[j] : j \in 1..(k - 1)}
            named == {m.index + 1 : m \in before}
            f == call.change[k].index + 1
        IN  /\ call.outcome \in {"out_of_range", "capacity mismatch"}
            /\ call.outcome = "out_of_range"
                  <=> (f \notin DOMAIN call.spc.groups \/ f \notin DOMAIN trial.groups)
            /\ call.applied = k - 1
            /\ \A m \in before :
                  LET go == spc.groups[m.index + 1]
                      gn == trial.groups[m.index + 1]
                  IN  /\ go.id = gn.id /\ go.atomic = gn.atomic /\ go.cm = gn.cm
                      /\ \A i \in Touched(m, gn) :
                            spc.p[go.begin + i + 1] = trial.p[gn.begin + i + 1]
            /\ \A g \in DOMAIN spc.groups : g \notin named =>
                  /\ spc.groups[g] = call.spc.groups[g]
                  /\ Window(spc.p, spc.groups[g]) = Window(call.spc.p, spc.groups[g])
            /\ f \in DOMAIN spc.groups => f \notin named

(* A sync whose second entry fails on a capacity mismatch after the first   *)
(* was applied, and whose failing group an entry-wise copy would have       *)
(* changed.                                                                 *)
C28_Witness ==
    /\ call.op = "sync"
    /\ FirstFailing(call) = 2
    /\ call.outcome = "capacity mismatch"
    /\ spc # call.spc
    /\ call.change[2].all

\* The same with groups.at() throwing.
C28_WitnessRange ==
    /\ call.op = "sync"
    /\ FirstFailing(call) = 2
    /\ call.outcome = "out_of_range"
    /\ spc.p # call.spc.p

----------------------------------------------------------------------------
(* Cylinder loaded from a record (core.h 913-932, 947-949)                  *)

(* C29: a Cylinder built from a record {length: L, radius: R} has length L  *)
(* and radius R: getVolume(1) = L, getVolume(2) = pi*R^2,                   *)
(* getVolume(3) = pi*R^2*L, its periodic (axial) side length is L, the      *)
(* same values as after setRadius(R, L).                                    *)
C29_CylinderFromRecord ==
    call.op = "from_json(Cylinder)" =>
        LET L == call.j.length
            R == call.j.radius
        IN  /\ getVolume(geo, 1) = Real(L, 0)
            /\ getVolume(geo, 2) = Real(0, R * R)
            /\ getVolume(geo, 3) = Real(0, R * R * L)
            /\ geo.len[3] = L
            /\ geo = setRadius(Cylinder, R, L)

----------------------------------------------------------------------------
(* Group::translate (core.h 1373-1381)                                      *)

(* A boundary functor called on the point a: geo.boundaryFunc is            *)
(* std::bind(&GeometryBase::boundary, this, _1), given here as the geometry *)
(* it is bound to; the lambda [](Point&){} is given as NoGeometry.          *)
CallBoundary(bf, a) == IF bf.name = "none" THEN a ELSE boundary(bf, a)

\* A faulty loop: over the whole window [begin, trueend) of the group.
translate_window(space, g, d, bf) ==
    LET grp == space.groups[g]
        cm2 == CallBoundary(bf, [i \in Axes |-> grp.cm[i] + d[i]])
    IN  [space EXCEPT
            !.groups[g].cm = cm2,
            !.p = [k \in DOMAIN space.p |->
                      IF grp.begin < k /\ k <= grp.trueend
                      THEN [space.p[k] EXCEPT
                               !.pos = CallBoundary(bf, [i \in Axes |-> @[i] + d[i]])]
                      ELSE space.p[k]]]

(* Group::translate(d, boundary) on group g (1-based) of a Space:           *)
(*     cm += d; boundary(cm);                                               *)
(*     for (auto &i : *this) { i.pos += d; boundary(i.pos); }               *)
(* *this is the range [begin(), end()).                                     *)
translate(space, g, d, bf) ==
    LET grp == space.groups[g]
        cm2 == CallBoundary(bf, [i \in Axes |-> grp.cm[i] + d[i]])
    IN  [space EXCEPT
            !.groups[g].cm = cm2,
            !.p = [k \in DOMAIN space.p |->
                      IF grp.begin < k /\ k <= grp.end
                      THEN [space.p[k] EXCEPT
                               !.pos = CallBoundary(bf, [i \in Axes |-> @[i] + d[i]])]
                      ELSE space.p[k]]]

\* spc.groups[g].translate(d, bf), bf being geo.boundaryFunc or a lambda
\* that does nothing.
Translate(g, d, bf) ==
    /\ call.op = "none"
    /\ spc' = translate(spc, g, d, bf)
    /\ call' = [op |-> "translate", g |-> g, d |-> d, bf |-> bf, spc |-> spc,
                outcome |-> "returned"]
    /\ UNCHANGED <<v, r, trial, ndebug, prev, nops, chg, geo, point, mol, atoms, particle, rng, ins>>

\* The displacements handed to translate: along the diagonal and along x.
Displacements == Diagonal \cup {<<d[1], 0, 0>> : d \in Diagonal}

(* A Space of two groups (2 and 1 particles) in a periodic box; every       *)
(* particle has its own position and charge.                                *)
InitTranslate ==
    /\ IdleRange
    /\ chg = NoChange
    /\ mol = NoConformations
    /\ IdleCatalog
    /\ point = <<0, 0, 0>>
    /\ geo \in {setLength(PBC(TRUE, TRUE, TRUE), l) : l \in Sides}
    /\ spc = LET P(k) == [id |-> k % 2, pos |-> <<k, -k, 0>>, charge |-> k]
                 s1 == push_back(reserve(EmptySpace, 3), 0, <<P(1), P(2)>>, 0).spc
             IN  push_back(s1, 1, <<P(3)>>, 0).spc
    /\ trial = EmptySpace
    /\ ndebug = FALSE
    /\ call = NoCall

\* Valid deactivate/activate calls on the groups, then one translate.
NextTranslate ==
    \/ \E g \in DOMAIN spc.groups, first \in 0..Len(spc.p), last \in 0..Len(spc.p) :
           GroupDeactivate("spc", g, first, last)
    \/ \E g \in DOMAIN spc.groups, first \in 0..Len(spc.p), last \in 0..Len(spc.p) :
           GroupActivate("spc", g, first, last)
    \/ \E g \in DOMAIN spc.groups, d \in Displacements, bf \in {geo, NoGeometry} :
           Translate(g, d, bf)

SpecTranslate == InitTranslate /\ [][NextTranslate]_vars

(* C25: Group::translate(d, boundary) adds d to the cached mass center and  *)
(* to the position of every active particle and then applies boundary to    *)
(* each of them, and changes nothing else: the particles in [end, trueEnd), *)
(* the particles of other groups, every non-position property of the        *)
(* active particles, and the groups' windows, ids and atomic flags stay.    *)
C25_TranslateFrame ==
    call.op = "translate" =>
        LET old == call.spc
            grp == old.groups[call.g]
            Moved(a) == CallBoundary(call.bf, [i \in Axes |-> a[i] + call.d[i]])
        IN  /\ spc.groups[call.g].cm = Moved(grp.cm)
            /\ spc.groups = [old.groups EXCEPT ![call.g].cm = Moved(grp.cm)]
            /\ DOMAIN spc.p = DOMAIN old.p
            /\ \A k \in DOMAIN spc.p :
                  IF grp.begin < k /\ k <= grp.end
                  THEN /\ spc.p[k].pos = Moved(old.p[k].pos)
                       /\ spc.p[k] = [old.p[k] EXCEPT !.pos = spc.p[k].pos]
                  ELSE spc.p[k] = old.p[k]

(* A translate of a group with an active and a deactivated particle, in     *)
(* which boundary changed what the addition of d gave.                      *)
C25_Witness ==
    /\ call.op = "translate"
    /\ size(spc.groups[call.g]) > 0
    /\ size(spc.groups[call.g]) < capacity(spc.groups[call.g])
    /\ \E k \in DOMAIN spc.p :
          /\ spc.groups[call.g].begin < k /\ k <= spc.groups[call.g].end
          /\ spc.p[k].pos # call.spc.p[k].pos
          /\ spc.p[k].pos # [i \in Axes |-> call.spc.p[k].pos[i] + call.d[i]]

----------------------------------------------------------------------------
(* Catalog lists: from_json(json, std::vector<T>) (core.h 680-691), T being *)
(* AtomData or MoleculeData                                                 *)

(* Number of different type names; name n stands for the n-th string in the *)
(* order of std::string::operator<, which is the order the keys of a json   *)
(* object (a std::map) are iterated in.                                     *)
MaxNames == 3
\* Largest number of entries of a catalog list.
MaxCatalog == 4
\* Largest number of members written in one json object.
MaxMembers == 2

(* The members that can be written: a type name, and the "id" its record    *)
(* gives: 7 for the names of odd number, none for the others (-1, the       *)
(* default that from_json then keeps).                                      *)
Members == {[name |-> n, id |-> IF n % 2 = 1 THEN 7 ELSE -1] : n \in 1..MaxNames}

\* A json value as written: the members in the order they were written.
Written == SeqsUpTo(Members, MaxMembers)

(* The json object a written sequence of members gives: a std::map from key *)
(* to value, a key written twice keeping its first value. Given as the      *)
(* function from the keys to the written "id".                              *)
json(written) ==
    [n \in {written[i].name : i \in DOMAIN written} |->
        written[CHOOSE i \in DOMAIN written :
                   /\ written[i].name = n
                   /\ \A k \in 1..(i - 1) : written[k].name # n].id]

\* A faulty loop: the entry keeps the id its record gives.
RECURSIVE from_json_list_keepid(_, _)
from_json_list_keepid(j, vec) ==
    IF DOMAIN j = {} THEN vec
    ELSE LET key == CHOOSE n \in DOMAIN j : \A o \in DOMAIN j : n <= o
         IN  from_json_list_keepid([n \in DOMAIN j \ {key} |-> j[n]],
                                   Append(vec, [name |-> key, id |-> j[key]]))

(* The loop of from_json(j, v) over a json object j, from it on (the        *)
(* smallest key left):                                                      *)
(*     v.push_back(_j);                 from_json(_j, T&): name = it.key(), *)
(*                                      id = value("id", id)                *)
(*     v.back().id() = v.size()-1;                                          *)
RECURSIVE from_json_list(_, _)
from_json_list(j, vec) ==
    IF DOMAIN j = {} THEN vec
    ELSE LET key == CHOOSE n \in DOMAIN j : \A o \in DOMAIN j : n <= o
             pushed == Append(vec, [name |-> key, id |-> j[key]])
         IN  from_json_list([n \in DOMAIN j \ {key} |-> j[n]],
                            [pushed EXCEPT ![Len(pushed)].id = Len(pushed) - 1])

(* from_json(j, atoms) with j the json written; a j that is not a json      *)
(* object (object = FALSE: an array, a number, null) is not read at all.    *)
LoadList(written, object) ==
    /\ Running
    /\ Len(atoms) + Len(written) <= MaxCatalog
    /\ atoms' = IF object THEN from_json_list(json(written), atoms) ELSE atoms
    /\ call' = [op |-> "from_json(list)", written |-> written, object |-> object,
                atoms |-> atoms, outcome |-> "returned"]
    /\ UNCHANGED <<v, r, spc, trial, ndebug, prev, nops, chg, geo, point, mol,
                   particle, rng, ins>>

\* static std::vector<AtomData<Tparticle>> atoms = {}
InitCatalog ==
    /\ IdleRange
    /\ IdleSpace
    /\ Idle
    /\ ndebug = FALSE
    /\ call = NoCall

NextCatalog ==
    \/ \E written \in Written : LoadList(written, TRUE)
    \/ LoadList(<<>>, FALSE)

SpecCatalog == InitCatalog /\ [][NextCatalog]_vars

(* C24: after loading type records into a catalog list, also one that is    *)
(* already non-empty, every entry's id equals its index in the list, the    *)
(* entries loaded earlier keep their index and id, and the entries of one   *)
(* load are indexed in the order of their names whatever order they were    *)
(* written in.                                                              *)
C24_IdIsIndex ==
    /\ \A i \in DOMAIN atoms : atoms[i].id = i - 1
    /\ call.op = "from_json(list)" =>
          LET old == call.atoms
              new == SubSeq(atoms, Len(old) + 1, Len(atoms))
          IN  /\ Len(atoms) >= Len(old)
              /\ SubSeq(atoms, 1, Len(old)) = old
              /\ \A i \in DOMAIN new : \A k \in DOMAIN new :
                    i < k => new[i].name < new[k].name
              /\ call.object =>
                    {new[i].name : i \in DOMAIN new}
                        = {call.written[i].name : i \in DOMAIN call.written}

(* A load into a non-empty list of two records written in descending order  *)
(* of their names, whose records give other ids than the indices.           *)
C24_Witness ==
    /\ call.op = "from_json(list)"
    /\ call.atoms # <<>>
    /\ Len(atoms) = Len(call.atoms) + 2
    /\ call.written[1].name > call.written[2].name
    /\ call.written[1].id = 7

----------------------------------------------------------------------------
(* Particle::rotate and the orientable particle properties (core.h 143-168, *)
(* 379-416, 434-438, 477-522, 548-571).                                     *)
(*                                                                          *)
(* Rotations are by quarter turns about a coordinate axis, for which        *)
(* sin and cos of the angle are 0, 1 or -1 and every product is exact. A    *)
(* Point is a triple, a Matrix3d the triple of its rows. A quaternion is    *)
(* kept as integers [w, x, y, z] times a common positive factor, n2 being   *)
(* its squared norm: the rotation a quaternion stands for does not depend   *)
(* on that factor.                                                          *)

Dot(a, b) == a[1] * b[1] + a[2] * b[2] + a[3] * b[3]

Cross(a, b) == <<a[2] * b[3] - a[3] * b[2],
                 a[3] * b[1] - a[1] * b[3],
                 a[1] * b[2] - a[2] * b[1]>>

Transposed(A) == <<<<A[1][1], A[2][1], A[3][1]>>,
                   <<A[1][2], A[2][2], A[3][2]>>,
                   <<A[1][3], A[2][3], A[3][3]>>>>

\* Row i of the matrix product A * B.
TimesRow(A, B, i) ==
    <<A[i][1] * B[1][1] + A[i][2] * B[2][1] + A[i][3] * B[3][1],
      A[i][1] * B[1][2] + A[i][2] * B[2][2] + A[i][3] * B[3][2],
      A[i][1] * B[1][3] + A[i][2] * B[2][3] + A[i][3] * B[3][3]>>

Times(A, B) == <<TimesRow(A, B, 1), TimesRow(A, B, 2), TimesRow(A, B, 3)>>

Identity == <<<<1, 0, 0>>, <<0, 1, 0>>, <<0, 0, 1>>>>

\* Angles in quarter turns; their sine and cosine.
Turns == 0..3

sin(angle) == <<0, 1, 0, -1>>[angle + 1]

cos(angle) == <<1, 0, -1, 0>>[angle + 1]

\* The unit vectors along the axes, in both directions.
UnitAxes == {<<1, 0, 0>>, <<-1, 0, 0>>, <<0, 1, 0>>, <<0, -1, 0>>, <<0, 0, 1>>, <<0, 0, -1>>}

(* Eigen::AngleAxisd(angle, u) as a quaternion: w = cos(angle/2),           *)
(* vec = sin(angle/2) * u; for 0, 1, 2, 3 quarter turns that is (1; 0),     *)
(* (1; u)/sqrt(2), (0; u) and (-1; u)/sqrt(2).                              *)
AngleAxisd(angle, u) ==
    LET w == <<1, 1, 0, -1>>[angle + 1]
        k == <<0, 1, 1, 1>>[angle + 1]
    IN  [w |-> w, vec |-> <<k * u[1], k * u[2], k * u[3]>>,
         n2 |-> w * w + k * k * Dot(u, u)]

(* Eigen's Quaterniond * Point for a unit quaternion (w; vec):              *)
(*     uv = 2 * vec.cross(v);  v + w * uv + vec.cross(uv)                   *)
QuaternionTimes(q, a) ==
    LET uv == Cross(q.vec, a)
        vuv == Cross(q.vec, uv)
        at(i) == a[i] + (2 * q.w * uv[i] + 2 * vuv[i]) \div q.n2
    IN  <<at(1), at(2), at(3)>>

(* QuaternionRotate::set(angle, u) for a unit vector u: first is the        *)
(* quaternion, second the matrix                                            *)
(*     I + K*sin(angle) + K*K*(1 - cos(angle)),  K = [0 -uz uy; uz 0 -ux; -uy ux 0] *)
QuaternionRotate(angle, u) ==
    LET K == <<<<0, -u[3], u[2]>>, <<u[3], 0, -u[1]>>, <<-u[2], u[1], 0>>>>
        KK == Times(K, K)
        at(i, k) == Identity[i][k] + K[i][k] * sin(angle) + KK[i][k] * (1 - cos(angle))
    IN  [first |-> AngleAxisd(angle, u),
         second |-> <<<<at(1, 1), at(1, 2), at(1, 3)>>,
                      <<at(2, 1), at(2, 2), at(2, 3)>>,
                      <<at(3, 1), at(3, 2), at(3, 3)>>>>]

\* Tensor(xx, xy, xz, yy, yz, zz)
Tensor(xx, xy, xz, yy, yz, zz) == <<<<xx, xy, xz>>, <<xy, yy, yz>>, <<xz, yz, zz>>>>

\* A faulty rotate: the rod direction is left as it is.
Particle_rotate_norod(p, q, m) ==
    [p EXCEPT !.mu = QuaternionTimes(q, @),
              !.Q = Times(Times(m, @), Transposed(m))]

(* Particle<Radius,Dipole,Charge,Quadrupole,Cigar>::rotate(q, m): rotate    *)
(* (q, m) is called on every property. Radius and Charge inherit            *)
(* ParticlePropertyBase::rotate, which does nothing; Dipole: mu = q * mu;   *)
(* Quadrupole: Q.rotate(m), i.e. Q = m * Q * m.transpose(); Cigar:          *)
(* scdir = q * scdir.                                                       *)
Particle_rotate(p, q, m) ==
    [p EXCEPT !.mu = QuaternionTimes(q, @),
              !.Q = Times(Times(m, @), Transposed(m)),
              !.scdir = QuaternionTimes(q, @)]

\* QuaternionRotate qrot(angle, u);  particle.rotate( qrot.first, qrot.second )
Rotate(angle, u) ==
    /\ Running
    /\ LET qrot == QuaternionRotate(angle, u)
       IN  particle' = Particle_rotate(particle, qrot.first, qrot.second)
    /\ call' = [op |-> "rotate", angle |-> angle, u |-> u, particle |-> particle,
                outcome |-> "returned"]
    /\ UNCHANGED <<v, r, spc, trial, ndebug, prev, nops, chg, geo, point, mol,
                   atoms, rng, ins>>

\* The directions given to the dipole and to the rod before rotating.
Directions == {<<1, 0, 0>>, <<0, 0, 1>>, <<-1, 3, 19>>}

(* The particle p1 of the Particle test case, charge, radius, mulen and     *)
(* sclen in units of 0.1, with any of the directions for mu and scdir.      *)
InitParticle ==
    /\ IdleRange
    /\ IdleSpace
    /\ chg = NoChange
    /\ geo = NoGeometry
    /\ point = <<0, 0, 0>>
    /\ mol = NoConformations
    /\ atoms = <<>>
    /\ rng = <<>>
    /\ ins = [pc |-> "idle"]
    /\ ndebug = FALSE
    /\ call = NoCall
    /\ \E mu \in Directions, scdir \in Directions :
          particle = [id |-> 100, pos |-> <<1, 2, 3>>, charge |-> -8, radius |-> 71,
                      mu |-> mu, mulen |-> 28, scdir |-> scdir, sclen |-> 5,
                      Q |-> Tensor(1, 2, 3, 4, 5, 6)]

NextParticle == \E angle \in Turns, u \in UnitAxes : Rotate(angle, u)

SpecParticle == InitParticle /\ [][NextParticle]_vars

(* One quarter turn of the point a about the unit axis u: the part of a     *)
(* along u stays, the part across u turns to u x a.                         *)
QuarterTurn(u, a) ==
    LET c == Cross(u, a)
        d == Dot(u, a)
    IN  <<d * u[1] + c[1], d * u[2] + c[2], d * u[3] + c[3]>>

\* The point a turned by `angle` quarter turns about u.
RECURSIVE Turned(_, _, _)
Turned(angle, u, a) ==
    IF angle = 0 THEN a ELSE Turned(angle - 1, u, QuarterTurn(u, a))

(* C23: Particle::rotate applies the same rotation to every orientable      *)
(* property the particle carries: the dipole unit vector and the rod        *)
(* direction are turned by it, and the quadrupole tensor is the same        *)
(* bilinear form on the turned vectors; nothing else changes: id,           *)
(* position, charge, radius, dipole length and rod length are as before.    *)
(* Rotating mu = scdir = (1,0,0) and Q = Tensor(1,2,3,4,5,6) by a quarter   *)
(* turn about y gives (0,0,-1) and Tensor(6,5,-3,4,-2,1).                   *)
C23_RotateAllOrientable ==
    call.op = "rotate" =>
        LET old == call.particle
            R(a) == Turned(call.angle, call.u, a)
        IN  /\ particle.mu = R(old.mu)
            /\ particle.scdir = R(old.scdir)
            /\ \A x \in Axes : \A y \in Axes :
                  Dot(R(Identity[x]), [i \in Axes |-> Dot(particle.Q[i], R(Identity[y]))])
                      = old.Q[x][y]
            /\ particle = [old EXCEPT !.mu = particle.mu, !.scdir = particle.scdir,
                                      !.Q = particle.Q]
            /\ (/\ call.angle = 1 /\ call.u = <<0, 1, 0>>
                /\ old.mu = <<1, 0, 0>> /\ old.scdir = <<1, 0, 0>>
                /\ old.Q = Tensor(1, 2, 3, 4, 5, 6)) =>
                  /\ particle.mu = <<0, 0, -1>>
                  /\ particle.scdir = <<0, 0, -1>>
                  /\ particle.Q = Tensor(6, 5, -3, 4, -2, 1)

(* A rotation that changed the dipole, the rod and the quadrupole of a      *)
(* particle whose dipole and rod point in different directions.             *)
C23_Witness ==
    /\ call.op = "rotate"
    /\ call.particle.mu # call.particle.scdir
    /\ particle.mu # call.particle.mu
    /\ particle.scdir # call.particle.scdir
    /\ particle.Q # call.particle.Q
    /\ particle.pos = <<1, 2, 3>>

----------------------------------------------------------------------------
(* Random and its state token (core.h 209-257)                              *)
(*                                                                          *)
(* std::mt19937 is a table of state words and a position in it: a draw      *)
(* reads the word at the position and advances it, and regenerates the      *)
(* table when the position has reached its end; operator<< writes the words *)
(* and the position as decimal numbers, operator>> reads them. The engine   *)
(* below has that structure in small: three words of 0..4 instead of 624      *)
(* words of 32 bits.                                                        *)

\* Largest number of draws from a Random that are followed after its engine
\* was constructed or restored.
MaxDraws == 3
\* Number of different values std::random_device yields.
MaxSeed == 2

\* std::mt19937(seed): the table is filled from the seed, the position is
\* at its end.
mt19937(seed) ==
    [x |-> <<seed % 5, (3 * seed + 1) % 5, (4 * seed + 3) % 5>>, p |-> 3]

\* The table regenerated (the twist of the words).
twist(x) ==
    LET x1 == (x[1] + 2 * x[2] + 1) % 5
        x2 == (x[2] + 2 * x[3] + 1) % 5
    IN  <<x1, x2, (x[3] + 2 * x1 + 1) % 5>>

\* engine(): [engine, value], the engine after the draw and the number drawn.
generate(e) ==
    LET e1 == IF e.p >= Len(e.x) THEN [x |-> twist(e.x), p |-> 0] ELSE e
    IN  [engine |-> [e1 EXCEPT !.p = @ + 1],
         value |-> (2 * e1.x[e1.p + 1] + 1) % 5]

(* Random::operator()(): dist01(engine). The double is made of two numbers  *)
(* drawn from the engine (std::generate_canonical<double, 53> on a 32 bit   *)
(* engine); it is given as the pair.                                        *)
dist01(e) ==
    LET g1 == generate(e)
        g2 == generate(g1.engine)
    IN  [engine |-> g2.engine, value |-> <<g1.value, g2.value>>]

\* Random(): a default-constructed engine (std::mt19937's default seed).
Random == [engine |-> mt19937(0)]

\* A faulty token: the position in the table is not written.
to_json_Random_words(rnd) == [randomseed |-> rnd.engine.x \o <<3>>]

(* to_json(j, Random): o << r.engine; j["randomseed"] = o.str(). The string *)
(* is given as the sequence of the numbers written.                         *)
to_json_Random(rnd) == [randomseed |-> rnd.engine.x \o <<rnd.engine.p>>]

(* from_json(j, Random &r) for a json object j; seed is                     *)
(* j.value("randomseed", std::string()): <<>> if j has no such member.      *)
(* device is what std::random_device yields if it is asked.                 *)
from_json_Random(j, rnd, device) ==
    LET seed == j.randomseed
    IN  IF seed = <<"hardware">> THEN [rnd EXCEPT !.engine = mt19937(device)]
        ELSE IF seed # <<>>
        THEN [rnd EXCEPT !.engine = [x |-> SubSeq(seed, 1, Len(seed) - 1),
                                     p |-> seed[Len(seed)]]]
        ELSE rnd

(* rng.r are the two Random objects of the Random test case. History:       *)
(* rng.drawn[k] are the numbers drawn from object k since the two were last *)
(* made alike, rng.alike is TRUE from the moment one was restored from the  *)
(* other's token (or both were default-constructed) until one of them is    *)
(* seeded anew.                                                             *)
BothRandom == [r |-> <<Random, Random>>, drawn |-> <<<<>>, <<>>>>, alike |-> TRUE]

\* rng.r[k]()
Draw(k) ==
    /\ Running
    /\ Len(rng.drawn[k]) < MaxDraws
    /\ LET d == dist01(rng.r[k].engine)
       IN  rng' = [rng EXCEPT !.r[k].engine = d.engine,
                              !.drawn[k] = Append(@, d.value)]
    /\ call' = [op |-> "draw", k |-> k, outcome |-> "returned"]
    /\ UNCHANGED <<v, r, spc, trial, ndebug, prev, nops, chg, geo, point, mol,
                   atoms, particle, ins>>

\* rng.r[k].seed(): engine = std::mt19937(std::random_device()())
Seed(k, device) ==
    /\ Running
    /\ rng' = [rng EXCEPT !.r[k].engine = mt19937(device),
                          !.drawn = <<<<>>, <<>>>>, !.alike = FALSE]
    /\ call' = [op |-> "seed", k |-> k, outcome |-> "returned"]
    /\ UNCHANGED <<v, r, spc, trial, ndebug, prev, nops, chg, geo, point, mol,
                   atoms, particle, ins>>

\* Random rng.r[k] = json(rng.r[3-k]): the other object's token is restored
\* into a default-constructed Random.
Restore(k) ==
    /\ Running
    /\ rng' = [rng EXCEPT
                  !.r[k] = from_json_Random(to_json_Random(rng.r[3 - k]), Random, 0),
                  !.drawn = <<<<>>, <<>>>>, !.alike = TRUE]
    /\ call' = [op |-> "restore", k |-> k, outcome |-> "returned"]
    /\ UNCHANGED <<v, r, spc, trial, ndebug, prev, nops, chg, geo, point, mol,
                   atoms, particle, ins>>

(* from_json(j, rng.r[k]) for a record j that is not a token: without       *)
(* "randomseed", or with "hardware".                                        *)
FromJson(k, seed, device) ==
    /\ Running
    /\ rng' = [rng EXCEPT
                  !.r[k] = from_json_Random([randomseed |-> seed], @, device),
                  !.drawn = IF seed = <<>> THEN @ ELSE <<<<>>, <<>>>>,
                  !.alike = IF seed = <<>> THEN @ ELSE FALSE]
    /\ call' = [op |-> "from_json(Random)", k |-> k, seed |-> seed,
                engine |-> rng.r[k].engine, outcome |-> "returned"]
    /\ UNCHANGED <<v, r, spc, trial, ndebug, prev, nops, chg, geo, point, mol,
                   atoms, particle, ins>>

\* Random a, b;
InitRandom ==
    /\ IdleRange
    /\ IdleSpace
    /\ chg = NoChange
    /\ geo = NoGeometry
    /\ point = <<0, 0, 0>>
    /\ mol = NoConformations
    /\ atoms = <<>>
    /\ particle = [id |-> -1]
    /\ ins = [pc |-> "idle"]
    /\ rng = BothRandom
    /\ ndebug = FALSE
    /\ call = NoCall

NextRandom ==
    \/ \E k \in 1..2 : Draw(k)
    \/ \E k \in 1..2, device \in 0..MaxSeed : Seed(k, device)
    \/ \E k \in 1..2 : Restore(k)
    \/ \E k \in 1..2, seed \in {<<>>, <<"hardware">>}, device \in 0..MaxSeed :
           FromJson(k, seed, device)

SpecRandom == InitRandom /\ [][NextRandom]_vars

----------------------------------------------------------------------------
(* RandomInserter (molecule.h 22-107)                                       *)
(*                                                                          *)
(* operator() is followed one pass of its do-while loop at a time. ins      *)
(* holds the inserter's settings, the local variables cnt and v, and the    *)
(* position in the code: "do" (about to start a pass), "returned", "threw"  *)
(* (with the message in ins.what). History: ins.attempts counts the passes  *)
(* that placed a conformation and checked it for overlap. The molecule is   *)
(* not atomic and its conformations have one particle, at the mass center,  *)
(* so that rotating about the mass center leaves it in place; dir and       *)
(* offset are left at (1,1,1) and (0,0,0). Asserts are compiled out.        *)

\* Largest maxtrials an inserter is given.
MaxTrials == 2

(* geo.collision(a, radius): TRUE if the sphere of the radius about a       *)
(* leaves the container.                                                    *)
collision(g, a, radius) ==
    \E i \in Axes : 2 * (fabs(a[i]) + radius) > g.len[i]

(* Box::randompos(m, rand): m = (rand() - 0.5) * len on every axis, with    *)
(* rand() in [0,1): the set of the points that can come out.                *)
randompos(g) ==
    {a \in Points : \A i \in Axes : -g.len[i] <= 2 * a[i] /\ 2 * a[i] < g.len[i]}

(* MoleculeData::getRandomConformation(): throws if no conformation is      *)
(* stored, else returns conformations.at(_confid), _confid = confid - 1     *)
(* being what confDist(slump.engine) draws.                                 *)
getRandomConformation(m, confid) ==
    IF m.conformations = <<>>
    THEN [outcome |-> "No configurations for molecule", v |-> <<>>]
    ELSE IF confid \notin DOMAIN m.conformations
    THEN [outcome |-> "std::out_of_range", v |-> <<>>]
    ELSE [outcome |-> "returned", v |-> m.conformations[confid]]

(* One pass of the do-while loop of RandomInserter::operator()(geo, p, mol) *)
(* from the state i: confid and a are what the pass draws (the conformation *)
(* and the random point in the container).                                  *)
RandomInserter(i, g, m, confid, a) ==
    LET conf == getRandomConformation(m, confid)
        fits == \A n \in DOMAIN conf.v : ~collision(g, conf.v[n].pos, 0)
        placed == IF i.keeppos THEN conf.v
                  ELSE [n \in DOMAIN conf.v |->
                           [conf.v[n] EXCEPT !.pos = boundary(g, a)]]
        overlap == /\ i.checkOverlap
                   /\ \E n \in DOMAIN placed :
                          collision(g, placed[n].pos, placed[n].radius)
    IN  IF i.cnt > i.maxtrials
        THEN [i EXCEPT !.cnt = @ + 1, !.pc = "threw",
                       !.what = "Max. # of overlap checks reached upon insertion."]
        ELSE IF conf.outcome # "returned"
        THEN [i EXCEPT !.cnt = @ + 1, !.pc = "threw", !.what = conf.outcome]
        ELSE IF i.keeppos /\ ~fits
        THEN [i EXCEPT !.cnt = @ + 1, !.v = conf.v, !.pc = "threw",
                       !.what = "Error: Inserted molecule does not fit in container"]
        ELSE [i EXCEPT !.cnt = @ + 1, !.v = placed, !.attempts = @ + 1,
                       !.pc = IF overlap THEN "do" ELSE "returned"]

\* RandomInserter ins; ins.maxtrials = ...; ins(geo, p, mol) is entered.
Insert(maxtrials, checkOverlap, keeppos) ==
    /\ ins.pc = "idle"
    /\ ins' = [pc |-> "do", maxtrials |-> maxtrials, checkOverlap |-> checkOverlap,
               keeppos |-> keeppos, cnt |-> 0, v |-> <<>>, attempts |-> 0,
               what |-> ""]
    /\ call' = [op |-> "RandomInserter", outcome |-> "running"]
    /\ UNCHANGED <<v, r, spc, trial, ndebug, prev, nops, chg, geo, point, mol,
                   atoms, particle, rng>>

\* The next pass of the loop.
Pass(confid, a) ==
    /\ ins.pc = "do"
    /\ ins' = RandomInserter(ins, geo, mol, confid, a)
    /\ call' = [op |-> "RandomInserter",
                outcome |-> IF ins'.pc = "do" THEN "running" ELSE ins'.pc]
    /\ UNCHANGED <<v, r, spc, trial, ndebug, prev, nops, chg, geo, point, mol,
                   atoms, particle, rng>>

(* A cuboid of side 2 and a molecule with no conformation, with one (a      *)
(* particle of radius 1 at the origin, which overlaps at some points of the *)
(* container and fits at others) or with a second one as well (a particle   *)
(* of radius 2 outside the container, which overlaps everywhere).           *)
InitInsert ==
    /\ IdleRange
    /\ IdleSpace
    /\ chg = NoChange
    /\ point = <<0, 0, 0>>
    /\ atoms = <<>>
    /\ particle = [id |-> -1]
    /\ rng = <<>>
    /\ ins = [pc |-> "idle"]
    /\ geo = from_json([length |-> <<2>>], PBC(TRUE, TRUE, TRUE)).geo
    /\ LET one == addConformation(NoConformations,
                                  <<[pos |-> <<0, 0, 0>>, radius |-> 1]>>, 1)
           two == addConformation(one, <<[pos |-> <<2, 0, 0>>, radius |-> 2]>>, 1)
           big == addConformation(NoConformations,
                                  <<[pos |-> <<2, 0, 0>>, radius |-> 2]>>, 1)
       IN  mol \in {NoConformations, one, two, big}
    /\ ndebug = TRUE
    /\ call = NoCall

NextInsert ==
    \/ \E maxtrials \in 0..MaxTrials, checkOverlap \in BOOLEAN, keeppos \in BOOLEAN :
           Insert(maxtrials, checkOverlap, keeppos)
    \/ \E confid \in DOMAIN mol.confDist, a \in randompos(geo) : Pass(confid, a)

SpecInsert == InitInsert /\ [][NextInsert]_vars

(* C21: RandomInserter with checkOverlap enabled always terminates: it      *)
(* returns a coordinate set with no container overlap or, when every        *)
(* attempt overlaps, raises the insertion error after at most maxtrials     *)
(* placement attempts; it never returns an overlapping set; a molecule with *)
(* no stored conformation raises an error instead of returning coordinates. *)
C21_InsertionBounded ==
    (ins.pc # "idle" /\ ins.checkOverlap) =>
        /\ ins.attempts <= ins.maxtrials
        /\ ins.pc = "returned" =>
              /\ mol.conformations # <<>>
              /\ \A n \in DOMAIN ins.v : ~collision(geo, ins.v[n].pos, ins.v[n].radius)
        /\ (ins.pc = "do" /\ ins.attempts > 0) =>
              \E n \in DOMAIN ins.v : collision(geo, ins.v[n].pos, ins.v[n].radius)

====
